---- MODULE Spec2Model ----
(***************************************************************************)
(* fires2rest: the optimistic-retry transaction coordinator                *)
(* (Firestore.runTransaction, Transaction) and the immutable query builder *)
(* (Query), modelled from the TypeScript sources.                          *)
(***************************************************************************)
EXTENDS Integers, Sequences, FiniteSets, TLC

(***************************************************************************)
(* Bounds of the model.                                                    *)
(***************************************************************************)
\* largest explicit maxAttempts option a caller passes
MaxAttemptsOpt == 2
\* most writes one callback invocation queues on its handle
MaxWrites == 2
\* the same, when two calls run concurrently
MaxWritesConc == 1

\* most builder calls made on one query and the queries derived from it
MaxBuilds == 2
\* largest count passed to limit, limitToLast and offset
MaxCount == 1
\* most get() calls made on the queries of one run
MaxGets == 2
MaxReads == 2
MaxLateWrites == 1
MaxDocs == 3
\* the orderBy calls that built the query get() is called on
MaxOrders == 2

\* most nodes (leaves, lists, objects) of a value given to the codec
MaxValueNodes == 3
\* longest string given to the path functions
MaxPathLen == 3
\* most nodes of a payload, the payload object itself not counted
MaxPayloadNodes == 2

\* the runTransaction calls that can be in flight on one client
Procs == {1, 2}
\* documents a callback writes
Docs == {"d1"}
\* values a callback invocation returns
Results == {"r1", "r2"}

\* absent token / absent value
NoToken == <<>>
None == [none |-> TRUE]

(***************************************************************************)
(* Errors.  An error value carries what the catch clause of runTransaction *)
(* looks at (is it an Error, does its message include "ABORTED") and where *)
(* it comes from: src, the attempt, and whether it is a contention         *)
(* failure reported by the backend.                                        *)
(***************************************************************************)
Err(src, att, contention, isError, hasAborted) ==
    [src |-> src, att |-> att, contention |-> contention,
     isError |-> isError, hasAborted |-> hasAborted]

\* `new Error("Failed to ...: " + JSON.stringify(error))` of a non-ok response:
\* a contention response carries the status ABORTED in its body.
BackendErrors(src, att) ==
    { Err(src, att, TRUE, TRUE, TRUE), Err(src, att, FALSE, TRUE, FALSE) }

\* whatever the user callback throws: an Error with any message, or a non-Error.
CallbackErrors(att) ==
    { Err("callback", att, FALSE, TRUE, FALSE),
      Err("callback", att, FALSE, TRUE, TRUE),
      Err("callback", att, FALSE, FALSE, TRUE) }

\* `new Error("Transaction failed after max attempts")`
GenericError == Err("generic", -1, FALSE, TRUE, FALSE)

(***************************************************************************)
(* runTransaction and Transaction: the pure parts.                         *)
(***************************************************************************)
DefaultMaxAttempts == 5

\* const maxAttempts = options?.maxAttempts ?? 5
MaxAttemptsOf(opt) == IF opt = None THEN DefaultMaxAttempts ELSE opt.v

\* for (...; attempt < maxAttempts; ...)
LoopContinuesAtLeastOnce(attempt, maxAttempts) == attempt = 0 \/ attempt < maxAttempts
LoopContinues(attempt, maxAttempts) == attempt < maxAttempts

\* error instanceof Error && error.message.includes("ABORTED")
IsRetryable(e) == e.isError /\ e.hasAborted

\* throw lastError ?? new Error("Transaction failed after max attempts")
ExhaustedErrorGeneric(lastError) == GenericError
ExhaustedError(lastError) == IF lastError = None THEN GenericError ELSE lastError

\* _getHeaders: const token = await this._getToken(), one call of the
\* configured getToken, and Authorization: Bearer token.  The history a of
\* an attempt counts the getToken calls and lists, per request sent, which
\* of the tokens obtained so far its header carries.
NoAuth == [getToken |-> 0, bearers |-> <<>>, reads |-> 0]
GetHeadersCached(a) ==
    IF a.getToken > 0 THEN [a EXCEPT !.bearers = Append(@, a.getToken)]
    ELSE [a EXCEPT !.getToken = 1, !.bearers = Append(@, 1)]
GetHeaders(a) ==
    [a EXCEPT !.getToken = @ + 1, !.bearers = Append(@, a.getToken + 1)]

\* new Transaction(this, transactionId): its own id and its own empty _writes
NewTransaction(transactionId) == [id |-> transactionId, writes |-> <<>>]

\* this._writes.push(write) on the handle of call t
QueueWriteShared(tx, t, w) ==
    [u \in Procs |-> IF tx[u] = None THEN None
                     ELSE [tx[u] EXCEPT !.writes = Append(@, w)]]
QueueWritePrepend(tx, t, w) == [tx EXCEPT ![t].writes = <<w>> \o @]
QueueWrite(tx, t, w) == [tx EXCEPT ![t].writes = Append(@, w)]

\* Transaction._getWrites()
GetWrites(h) == h.writes

\* the requests the client sends
Request(op, token, writes) == [op |-> op, token |-> token, writes |-> writes]

\* _beginTransaction: POST documents:beginTransaction; retryTransaction is
\* never set, so the options are {readWrite: {}}
BeginRequest == Request("beginTransaction", NoToken, <<>>)

\* _commitTransaction: POST documents:commit {writes, transaction}
CommitRequestNoToken(transactionId, writes) == Request("commit", NoToken, writes)
CommitRequest(transactionId, writes) == Request("commit", transactionId, writes)

\* _getDocument(path, transactionId): batchGet with the token when one is given,
\* the single-document GET otherwise
GetDocumentRequest(transactionId) ==
    IF transactionId # NoToken
    THEN Request("batchGet", transactionId, <<>>)
    ELSE Request("get", NoToken, <<>>)

\* _runQuery(collectionPath, query, transactionId): body.transaction only if given
RunQueryRequest(transactionId) == Request("runQuery", transactionId, <<>>)

\* Transaction.get(ref): this._firestore._getDocument(ref.path, this._transactionId)
TransactionGet(h) == GetDocumentRequest(h.id)

\* Query.get(): declared without parameters, so the argument a caller passes is
\* dropped and _runQuery is called with (collectionPath, structuredQuery) only
QueryGet(arg) == RunQueryRequest(NoToken)

\* Transaction.runQuery(query): query.get(this._transactionId)
TransactionRunQuery(h) == QueryGet(h.id)

\* Transaction.set / update / delete build the write, push it and return
\* `this`: they call nothing of the client but _getDocumentName, so no
\* request goes out
WriteIOImmediate(w) == Request("commit", NoToken, <<w>>)
WriteIO(w) == None

\* return result
ReturnValue(result, commitResponse) == result

\* a property that is set
Some(x) == [v |-> x]

(***************************************************************************)
(* Strings.  A string is the sequence of its characters, so that the code  *)
(* that tests, splits, escapes and joins strings acts on what it holds.    *)
(***************************************************************************)
Letters ==
    {"a", "b", "c", "d", "e", "f", "g", "h", "i", "j", "k", "l", "m", "n",
     "o", "p", "q", "r", "s", "t", "u", "v", "w", "x", "y", "z",
     "A", "B", "C", "D", "E", "F", "G", "H", "I", "J", "K", "L", "M", "N",
     "O", "P", "Q", "R", "S", "T", "U", "V", "W", "X", "Y", "Z"}
\* the characters ` and \ (the first has no TLA+ string of its own)
Backtick == "BACKTICK"
Backslash == "\\"
DigitChars == <<"0", "1", "2", "3", "4", "5", "6", "7", "8", "9">>
Digits == { DigitChars[i] : i \in 1..10 }

\* array.map(f)
Map(f(_), seq) == [i \in 1..Len(seq) |-> f(seq[i])]

\* the concatenation of a list of strings
RECURSIVE Concat(_)
Concat(strs) == IF strs = <<>> THEN <<>> ELSE Head(strs) \o Concat(Tail(strs))

\* str.includes(ch)
Includes(str, ch) == \E i \in 1..Len(str) : str[i] = ch

\* str.replace(/ch/g, by)
ReplaceAll(str, ch, by) ==
    Concat([i \in 1..Len(str) |-> IF str[i] = ch THEN by ELSE <<str[i]>>])

\* str.split(sep): the pieces between the occurrences of sep, at least one
RECURSIVE Split(_, _)
Split(str, sep) ==
    IF ~ Includes(str, sep) THEN <<str>>
    ELSE LET i == CHOOSE k \in 1..Len(str) :
                      str[k] = sep /\ \A j \in 1..(k - 1) : str[j] # sep
         IN <<SubSeq(str, 1, i - 1)>> \o Split(SubSeq(str, i + 1, Len(str)), sep)

\* strs.join(sep)
RECURSIVE Join(_, _)
Join(strs, sep) ==
    IF strs = <<>> THEN <<>>
    ELSE IF Len(strs) = 1 THEN strs[1]
    ELSE strs[1] \o <<sep>> \o Join(Tail(strs), sep)

\* String(n) of an integer n
RECURSIVE DigitsOf(_)
DigitsOf(n) ==
    IF n < 10 THEN <<DigitChars[n + 1]>>
    ELSE DigitsOf(n \div 10) \o <<DigitChars[(n % 10) + 1]>>
IntegerToString(n) == IF n < 0 THEN <<"-">> \o DigitsOf(0 - n) ELSE DigitsOf(n)

\* the value of the longest prefix of str made of digits, -1 if it is empty
RECURSIVE LeadingDigitsValue(_, _)
LeadingDigitsValue(str, acc) ==
    IF str = <<>> \/ Head(str) \notin Digits THEN acc
    ELSE LeadingDigitsValue(Tail(str),
             (IF acc < 0 THEN 0 ELSE acc * 10)
             + (CHOOSE d \in 0..9 : DigitChars[d + 1] = Head(str)))

(***************************************************************************)
(* Field paths (utils.ts).                                                 *)
(***************************************************************************)
\* SIMPLE_FIELD_PATH_REGEX.test(segment): /^[a-zA-Z_][a-zA-Z_0-9]*$/
SimpleFieldPathRegexTest(segment) ==
    /\ Len(segment) >= 1
    /\ segment[1] \in Letters \cup {"_"}
    /\ \A i \in 2..Len(segment) : segment[i] \in Letters \cup {"_"} \cup Digits

\* segment.replace(/\\/g, "\\\\").replace(/`/g, "\\`")
EscapeBackticksFirst(segment) ==
    ReplaceAll(ReplaceAll(segment, Backtick, <<Backslash, Backtick>>), Backslash, <<Backslash, Backslash>>)
Escape(segment) ==
    ReplaceAll(ReplaceAll(segment, Backslash, <<Backslash, Backslash>>), Backtick, <<Backslash, Backtick>>)

\* quoteFieldPathSegment
QuoteFieldPathSegment(segment) ==
    IF SimpleFieldPathRegexTest(segment) THEN segment
    ELSE <<Backtick>> \o Escape(segment) \o <<Backtick>>

\* quoteFieldPath: path.split(".").map(quoteFieldPathSegment).join(".")
QuoteWholePath(path) == QuoteFieldPathSegment(path)
QuoteFieldPath(path) == Join(Map(QuoteFieldPathSegment, Split(path, ".")), ".")

(***************************************************************************)
(* Native values and the FieldValue sentinels (value.ts, field-value.ts).  *)
(* A native value is a record tagged with its kind.  A number n is held as *)
(* twice its value, so that n is integral if and only if twice is even.    *)
(* An object is the list of its entries in Object.entries order.           *)
(***************************************************************************)
Null == [t |-> "null"]
Undefined == [t |-> "undefined"]
Bool(b) == [t |-> "boolean", b |-> b]
Num(twice) == [t |-> "number", twice |-> twice]
NaN == [t |-> "NaN"]
Str(s) == [t |-> "string", s |-> s]
DateOf(ms) == [t |-> "Date", ms |-> ms]
TimestampOf(seconds, nanoseconds) ==
    [t |-> "Timestamp", seconds |-> seconds, nanoseconds |-> nanoseconds]
GeoPointOf(latitude, longitude) ==
    [t |-> "GeoPoint", latitude |-> latitude, longitude |-> longitude]
Uint8Array(bytes) == [t |-> "Uint8Array", bytes |-> bytes]
List(items) == [t |-> "Array", items |-> items]
Entry(k, v) == [k |-> k, v |-> v]
PlainObject(entries) == [t |-> "object", entries |-> entries]

\* FieldValue.serverTimestamp(), delete(), increment(n), arrayUnion(...xs),
\* arrayRemove(...xs)
ServerTimestamp == [t |-> "FieldValue", type |-> "serverTimestamp"]
DeleteField == [t |-> "FieldValue", type |-> "delete"]
Increment(amount) == [t |-> "FieldValue", type |-> "increment", amount |-> amount]
ArrayUnion(elements) ==
    [t |-> "FieldValue", type |-> "arrayUnion", elements |-> elements]
ArrayRemove(elements) ==
    [t |-> "FieldValue", type |-> "arrayRemove", elements |-> elements]

\* isFieldValue, isDeleteField
IsFieldValue(value) == value.t = "FieldValue"
IsDeleteField(value) == value.t = "FieldValue" /\ value.type = "delete"

\* property names the code reads or that Object.keys gives
KeyLatitude == <<"l", "a", "t", "i", "t", "u", "d", "e">>
KeyLongitude == <<"l", "o", "n", "g", "i", "t", "u", "d", "e">>
KeySeconds == <<"s", "e", "c", "o", "n", "d", "s">>
KeyNanoseconds == <<"n", "a", "n", "o", "s", "e", "c", "o", "n", "d", "s">>
KeyMarker ==
    <<"_", "_", "i", "s", "F", "i", "e", "l", "d", "V", "a", "l", "u", "e", "_", "_">>
KeyType == <<"_", "t", "y", "p", "e">>
KeyAmount == <<"a", "m", "o", "u", "n", "t">>
KeyElements == <<"e", "l", "e", "m", "e", "n", "t", "s">>
TypeNames ==
    [serverTimestamp |-> <<"s", "e", "r", "v", "e", "r", "T", "i", "m", "e", "s", "t", "a", "m", "p">>,
     delete |-> <<"d", "e", "l", "e", "t", "e">>,
     increment |-> <<"i", "n", "c", "r", "e", "m", "e", "n", "t">>,
     arrayUnion |-> <<"a", "r", "r", "a", "y", "U", "n", "i", "o", "n">>,
     arrayRemove |-> <<"a", "r", "r", "a", "y", "R", "e", "m", "o", "v", "e">>]

\* Object.entries(value) of an object: the entries of a plain object, the
\* fields of a class instance, the indexed bytes of a Uint8Array, nothing for
\* a Date or an array (arrays are never asked)
ObjectEntries(value) ==
    CASE value.t = "object" -> value.entries
      [] value.t = "Timestamp" ->
            << Entry(KeySeconds, Num(2 * value.seconds)),
               Entry(KeyNanoseconds, Num(2 * value.nanoseconds)) >>
      [] value.t = "GeoPoint" ->
            << Entry(KeyLatitude, value.latitude),
               Entry(KeyLongitude, value.longitude) >>
      [] value.t = "Uint8Array" ->
            [i \in 1..Len(value.bytes) |->
                Entry(IntegerToString(i - 1), Num(2 * value.bytes[i]))]
      [] value.t = "FieldValue" ->
            << Entry(KeyMarker, Bool(TRUE)),
               Entry(KeyType, Str(TypeNames[value.type])) >>
            \o (IF value.type = "increment"
                THEN << Entry(KeyAmount, value.amount) >>
                ELSE IF value.type \in {"arrayUnion", "arrayRemove"}
                THEN << Entry(KeyElements, List(value.elements)) >>
                ELSE <<>>)
      [] OTHER -> <<>>

\* key in value
HasKey(value, key) ==
    \E i \in 1..Len(ObjectEntries(value)) : ObjectEntries(value)[i].k = key

\* typeof value === "object" && value !== null
IsObjectType(value) ==
    value.t \in {"Date", "Timestamp", "GeoPoint", "Uint8Array", "Array",
                 "object", "FieldValue"}

(***************************************************************************)
(* The value codec (value.ts).                                             *)
(***************************************************************************)
\* date.toISOString(): the UTC fields of the time value.  The date part is
\* kept as the day number; the calendar conversion between a day number and
\* year-month-day is a bijection and is not spelled out.
ToISOString(ms) ==
    [day |-> ms \div 86400000,
     hh |-> (ms % 86400000) \div 3600000,
     mm |-> (ms % 3600000) \div 60000,
     ss |-> (ms % 60000) \div 1000,
     sss |-> ms % 1000]

\* new Date(isoString).getTime()
DateParse(iso) ==
    (((iso.day * 24 + iso.hh) * 60 + iso.mm) * 60 + iso.ss) * 1000 + iso.sss

\* Timestamp.toDate(): new Date(seconds * 1000 + nanoseconds / 1_000_000);
\* the Date constructor drops the fraction of a millisecond (toward zero)
TimestampToDate(ts) ==
    LET nanos == ts.seconds * 1000000000 + ts.nanoseconds
    IN DateOf(IF nanos >= 0 THEN nanos \div 1000000
              ELSE 0 - ((0 - nanos) \div 1000000))

\* btoa of the bytes: the base64 text as the list of its 6-bit digits, with
\* 64 for the padding character
RECURSIVE Btoa(_)
Btoa(b) ==
    IF Len(b) = 0 THEN <<>>
    ELSE IF Len(b) = 1
    THEN << b[1] \div 4, (b[1] % 4) * 16, 64, 64 >>
    ELSE IF Len(b) = 2
    THEN << b[1] \div 4, (b[1] % 4) * 16 + b[2] \div 16, (b[2] % 16) * 4, 64 >>
    ELSE << b[1] \div 4, (b[1] % 4) * 16 + b[2] \div 16,
            (b[2] % 16) * 4 + b[3] \div 64, b[3] % 64 >>
         \o Btoa(SubSeq(b, 4, Len(b)))

\* atob of the base64 text
RECURSIVE Atob(_)
Atob(s) ==
    IF Len(s) < 4 THEN <<>>
    ELSE << s[1] * 4 + s[2] \div 16 >>
         \o (IF s[3] = 64 THEN <<>>
             ELSE << (s[2] % 16) * 16 + s[3] \div 4 >>
                  \o (IF s[4] = 64 THEN <<>> ELSE << (s[3] % 4) * 64 + s[4] >>))
         \o Atob(SubSeq(s, 5, Len(s)))

\* parseInt(str, 10)
ParseIntUnsigned(str) ==
    LET magnitude == LeadingDigitsValue(str, -1)
    IN IF magnitude < 0 THEN NaN ELSE Num(2 * magnitude)
ParseInt(str) ==
    LET negative == str # <<>> /\ Head(str) = "-"
        signed == str # <<>> /\ Head(str) \in {"-", "+"}
        magnitude == LeadingDigitsValue(IF signed THEN Tail(str) ELSE str, -1)
    IN IF magnitude < 0 THEN NaN
       ELSE Num(2 * (IF negative THEN 0 - magnitude ELSE magnitude))

\* toFirestoreValue.  Values of an unsupported type (function, symbol,
\* bigint), for which it throws, are not among the values of the model.
RECURSIVE ToFirestoreValue(_)
ToFirestoreObject(value) ==
    LET kept == SelectSeq(ObjectEntries(value), LAMBDA e : ~ IsFieldValue(e.v))
    IN [mapValue |-> [fields |->
           [i \in 1..Len(kept) |-> Entry(kept[i].k, ToFirestoreValue(kept[i].v))]]]
ToFirestoreValue(value) ==
    CASE value.t = "null" -> [nullValue |-> "null"]
      [] value.t = "undefined" -> [nullValue |-> "null"]
      [] value.t = "boolean" -> [booleanValue |-> value.b]
      [] value.t = "number" ->
            IF value.twice % 2 = 0
            THEN [integerValue |-> IntegerToString(value.twice \div 2)]
            ELSE [doubleValue |-> value]
      [] value.t = "NaN" -> [doubleValue |-> value]
      [] value.t = "string" -> [stringValue |-> value.s]
      [] value.t = "Date" -> [timestampValue |-> ToISOString(value.ms)]
      [] value.t = "Timestamp" ->
            [timestampValue |-> ToISOString(TimestampToDate(value).ms)]
      [] value.t = "GeoPoint" ->
            [geoPointValue |-> [latitude |-> value.latitude,
                                longitude |-> value.longitude]]
      [] value.t = "Uint8Array" -> [bytesValue |-> Btoa(value.bytes)]
      [] value.t = "Array" ->
            [arrayValue |-> [values |->
                [i \in 1..Len(value.items) |-> ToFirestoreValue(value.items[i])]]]
      [] OTHER -> ToFirestoreObject(value)

\* fromFirestoreValue / fromFirestoreFields
RECURSIVE FromFirestoreValue(_)
FromFirestoreFields(fields) ==
    PlainObject([i \in 1..Len(fields) |->
                    Entry(fields[i].k, FromFirestoreValue(fields[i].v))])
FromFirestoreValue(value) ==
    CASE "nullValue" \in DOMAIN value -> Null
      [] "booleanValue" \in DOMAIN value -> Bool(value.booleanValue)
      [] "integerValue" \in DOMAIN value -> ParseInt(value.integerValue)
      [] "doubleValue" \in DOMAIN value -> value.doubleValue
      [] "timestampValue" \in DOMAIN value -> DateOf(DateParse(value.timestampValue))
      [] "stringValue" \in DOMAIN value -> Str(value.stringValue)
      [] "bytesValue" \in DOMAIN value -> Uint8Array(Atob(value.bytesValue))
      [] "referenceValue" \in DOMAIN value -> Str(value.referenceValue)
      [] "geoPointValue" \in DOMAIN value ->
            GeoPointOf(value.geoPointValue.latitude, value.geoPointValue.longitude)
      [] "arrayValue" \in DOMAIN value ->
            List([i \in 1..Len(value.arrayValue.values) |->
                     FromFirestoreValue(value.arrayValue.values[i])])
      [] "mapValue" \in DOMAIN value -> FromFirestoreFields(value.mapValue.fields)

\* toFirestoreFields
ToFirestoreFields(data) ==
    LET kept == SelectSeq(ObjectEntries(data), LAMBDA e : ~ IsFieldValue(e.v))
    IN [i \in 1..Len(kept) |-> Entry(kept[i].k, ToFirestoreValue(kept[i].v))]

(***************************************************************************)
(* Field paths, deletes and transforms of a write payload (utils.ts,       *)
(* value.ts).  A path is a string; a list of paths is a list of strings.   *)
(***************************************************************************)
\* prefix ? `${prefix}.${quotedKey}` : quotedKey
WithPrefix(prefix, quotedKey) ==
    IF prefix # <<>> THEN prefix \o <<".">> \o quotedKey ELSE quotedKey

\* key.includes(".") ? quoteFieldPath(key) : quoteFieldPathSegment(key)
QuotedKey(key) ==
    IF Includes(key, ".") THEN QuoteFieldPath(key) ELSE QuoteFieldPathSegment(key)

\* getFieldPaths: whether the value of a key is descended into
GetFieldPathsRecurses(value) ==
    /\ IsObjectType(value)
    /\ value.t # "Array"
    /\ value.t # "Date"
    /\ ~ IsFieldValue(value)
    /\ Len(ObjectEntries(value)) > 0
    /\ ~ (HasKey(value, KeyLatitude) /\ HasKey(value, KeyLongitude))

\* getFieldPaths(obj, prefix, isFieldValue)
RECURSIVE GetFieldPaths(_, _)
GetFieldPaths(obj, prefix) ==
    LET entries == ObjectEntries(obj)
        PathsOf(e) ==
            IF Includes(e.k, ".") THEN << QuoteFieldPath(e.k) >>
            ELSE LET fullPath == WithPrefix(prefix, QuoteFieldPathSegment(e.k))
                 IN IF GetFieldPathsRecurses(e.v)
                    THEN GetFieldPaths(e.v, fullPath)
                    ELSE << fullPath >>
    IN Concat([i \in 1..Len(entries) |-> PathsOf(entries[i])])

\* the extractors: whether the value of a key is descended into
ExtractorRecurses(value) ==
    /\ IsObjectType(value)
    /\ value.t \notin {"Array", "Date", "Timestamp", "GeoPoint", "Uint8Array"}

\* fieldValueToTransform: the transform, if the sentinel gives one
FieldValueToTransformAlways(fieldValue, fieldPath) ==
    << [fieldPath |-> fieldPath, setToServerValue |-> "REQUEST_TIME"] >>
FieldValueToTransform(fieldValue, fieldPath) ==
    CASE fieldValue.type = "serverTimestamp" ->
            << [fieldPath |-> fieldPath, setToServerValue |-> "REQUEST_TIME"] >>
      [] fieldValue.type = "delete" -> <<>>
      [] fieldValue.type = "increment" ->
            << [fieldPath |-> fieldPath,
                increment |-> ToFirestoreValue(fieldValue.amount)] >>
      [] fieldValue.type = "arrayUnion" ->
            << [fieldPath |-> fieldPath,
                appendMissingElements |->
                    [values |-> [i \in 1..Len(fieldValue.elements) |->
                                    ToFirestoreValue(fieldValue.elements[i])]]] >>
      [] fieldValue.type = "arrayRemove" ->
            << [fieldPath |-> fieldPath,
                removeAllFromArray |->
                    [values |-> [i \in 1..Len(fieldValue.elements) |->
                                    ToFirestoreValue(fieldValue.elements[i])]]] >>

\* extractFieldTransforms(data, pathPrefix); a sentinel is never descended
\* into here, the other two extractors descend into the sentinels they do
\* not list (whose fields hold no sentinel)
RECURSIVE ExtractFieldTransforms(_, _)
ExtractFieldTransforms(data, pathPrefix) ==
    LET entries == ObjectEntries(data)
        Of(e) ==
            LET fieldPath == WithPrefix(pathPrefix, QuotedKey(e.k))
            IN IF IsFieldValue(e.v) THEN FieldValueToTransform(e.v, fieldPath)
               ELSE IF ExtractorRecurses(e.v)
               THEN ExtractFieldTransforms(e.v, fieldPath)
               ELSE <<>>
    IN Concat([i \in 1..Len(entries) |-> Of(entries[i])])

\* extractDeleteFields(data, pathPrefix)
RECURSIVE ExtractDeleteFields(_, _)
ExtractDeleteFields(data, pathPrefix) ==
    LET entries == ObjectEntries(data)
        Of(e) ==
            LET fieldPath == WithPrefix(pathPrefix, QuotedKey(e.k))
            IN IF IsFieldValue(e.v) /\ IsDeleteField(e.v) THEN << fieldPath >>
               ELSE IF ExtractorRecurses(e.v)
               THEN ExtractDeleteFields(e.v, fieldPath)
               ELSE <<>>
    IN Concat([i \in 1..Len(entries) |-> Of(entries[i])])

\* extractTransformFields(data, pathPrefix)
RECURSIVE ExtractTransformFields(_, _)
ExtractTransformFields(data, pathPrefix) ==
    LET entries == ObjectEntries(data)
        Of(e) ==
            LET fieldPath == WithPrefix(pathPrefix, QuotedKey(e.k))
            IN IF IsFieldValue(e.v) /\ ~ IsDeleteField(e.v) THEN << fieldPath >>
               ELSE IF ExtractorRecurses(e.v)
               THEN ExtractTransformFields(e.v, fieldPath)
               ELSE <<>>
    IN Concat([i \in 1..Len(entries) |-> Of(entries[i])])

(***************************************************************************)
(* buildUpdateFields (utils.ts).  The fields of a document or of a map     *)
(* value are the list of their entries, in insertion order.                *)
(***************************************************************************)
\* current[part]: the index of the entry, 0 if there is none
FieldIndex(fields, key) ==
    IF \E i \in 1..Len(fields) : fields[i].k = key
    THEN CHOOSE i \in 1..Len(fields) : fields[i].k = key
    ELSE 0

\* current[key] = value
FieldPut(fields, key, value) ==
    IF FieldIndex(fields, key) = 0 THEN Append(fields, Entry(key, value))
    ELSE [fields EXCEPT ![FieldIndex(fields, key)] = Entry(key, value)]

\* the walk along parts[0..n-2] and the assignment of parts[n-1]; ok is
\* FALSE when the walk reads mapValue.fields of a value that is not a map
\* (a TypeError)
RECURSIVE SetAtPath(_, _, _)
SetAtPath(fields, parts, value) ==
    IF Len(parts) = 1
    THEN [ok |-> TRUE, fields |-> FieldPut(fields, parts[1], value)]
    ELSE LET i == FieldIndex(fields, parts[1])
             inner == IF i = 0 THEN <<>>
                      ELSE IF "mapValue" \in DOMAIN fields[i].v
                      THEN fields[i].v.mapValue.fields
                      ELSE <<>>
             r == SetAtPath(inner, Tail(parts), value)
         IN IF i # 0 /\ "mapValue" \notin DOMAIN fields[i].v
            THEN [ok |-> FALSE, fields |-> fields]
            ELSE [ok |-> r.ok,
                  fields |-> FieldPut(fields, parts[1],
                                      [mapValue |-> [fields |-> r.fields]])]

\* buildUpdateFields(data, toFirestoreValue, isFieldValue), from the entries
\* not yet visited and the fields built so far
RECURSIVE BuildUpdateFieldsFrom(_, _)
BuildUpdateFieldsFrom(entries, fields) ==
    IF entries = <<>> THEN [ok |-> TRUE, fields |-> fields]
    ELSE LET e == Head(entries)
         IN IF IsFieldValue(e.v) THEN BuildUpdateFieldsFrom(Tail(entries), fields)
            ELSE IF Includes(e.k, ".")
            THEN LET r == SetAtPath(fields, Split(e.k, "."), ToFirestoreValue(e.v))
                 IN IF r.ok THEN BuildUpdateFieldsFrom(Tail(entries), r.fields)
                    ELSE r
            ELSE BuildUpdateFieldsFrom(Tail(entries),
                     FieldPut(fields, e.k, ToFirestoreValue(e.v)))
BuildUpdateFields(data) == BuildUpdateFieldsFrom(ObjectEntries(data), <<>>)

(***************************************************************************)
(* The writes of set and update (transaction.ts, client.ts).               *)
(***************************************************************************)
DocName == "projects/p/databases/d/documents/c/doc"
ExistsTrue == [exists |-> TRUE]

\* paths.filter(p => !list.includes(p))
Without(paths, a, b) ==
    SelectSeq(paths, LAMBDA p : /\ ~ \E i \in 1..Len(a) : a[i] = p
                                /\ ~ \E i \in 1..Len(b) : b[i] = p)

\* the write { update: {name, fields}, updateMask, updateTransforms,
\* currentDocument }, with None for a property that is not set
UpdateWrite(fields, updateMask, transforms, currentDocument) ==
    [update |-> [name |-> DocName, fields |-> fields],
     updateMask |-> updateMask,
     updateTransforms |-> IF Len(transforms) > 0 THEN Some(transforms) ELSE None,
     currentDocument |-> currentDocument]

\* the write { transform: {document, fieldTransforms}, currentDocument }
TransformWrite(transforms) ==
    [transform |-> [document |-> DocName, fieldTransforms |-> transforms],
     currentDocument |-> Some(ExistsTrue)]

\* Transaction.set and Firestore._setDocument: the write; with merge the
\* mask is getFieldPaths(data, "", isFieldValue)
SetWrites(data, merge) ==
    [threw |-> FALSE,
     writes |-> << UpdateWrite(ToFirestoreFields(data),
                               IF merge THEN Some(GetFieldPaths(data, <<>>)) ELSE None,
                               ExtractFieldTransforms(data, <<>>),
                               None) >>]

\* the mask of update: [...fieldPaths, ...deleteFields]
UpdateMask(data) ==
    Without(GetFieldPaths(data, <<>>), ExtractDeleteFields(data, <<>>),
            ExtractTransformFields(data, <<>>))
    \o ExtractDeleteFields(data, <<>>)

\* Transaction.update: the write it queues
TransactionUpdateWrites(data) ==
    [threw |-> FALSE,
     writes |-> << UpdateWrite(ToFirestoreFields(data), Some(UpdateMask(data)),
                               ExtractFieldTransforms(data, <<>>),
                               Some(ExistsTrue)) >>]

\* Firestore._updateDocument: the writes it sends, none if there is nothing
\* to write
UpdateDocumentWrites(data) ==
    LET built == BuildUpdateFields(data)
        transforms == ExtractFieldTransforms(data, <<>>)
        mask == UpdateMask(data)
    IN IF ~ built.ok THEN [threw |-> TRUE, writes |-> <<>>]
       ELSE [threw |-> FALSE,
             writes |->
                IF Len(mask) > 0
                THEN << UpdateWrite(built.fields, Some(mask), transforms,
                                    Some(ExistsTrue)) >>
                ELSE IF Len(transforms) > 0 THEN << TransformWrite(transforms) >>
                ELSE <<>>]

(***************************************************************************)
(* The values the pure functions are applied to.  A value of n nodes is a  *)
(* leaf (n = 1), or a list or an object whose members have n - 1 nodes in  *)
(* all.                                                                    *)
(***************************************************************************)
\* the lists of keys, all different, for the entries of an object
KeyLists(keys, n) ==
    { ks \in [1..n -> keys] : \A i, j \in 1..n : ks[i] = ks[j] => i = j }

RECURSIVE ValuesOfSize(_, _, _, _), MembersOfSize(_, _, _, _)
MembersOfSize(n, leaves, keys, lists) ==
    IF n = 0 THEN { <<>> }
    ELSE UNION { { <<v>> \o rest : v \in ValuesOfSize(k, leaves, keys, lists),
                                  rest \in MembersOfSize(n - k, leaves, keys, lists) }
                 : k \in 1..n }
ValuesOfSize(n, leaves, keys, lists) ==
    LET members == MembersOfSize(n - 1, leaves, keys, lists)
    IN (IF n = 1 THEN leaves ELSE {})
       \cup (IF lists THEN { List(m) : m \in members } ELSE {})
       \cup UNION { { PlainObject([i \in 1..Len(m) |-> Entry(ks[i], m[i])])
                      : ks \in KeyLists(keys, Len(m)) } : m \in members }

\* keys of objects: a simple one, one that needs quoting, a dotted one
KeyA == <<"a">>
KeyBC == <<"b", "-", "c">>
KeyAB == <<"a", ".", "b">>

\* the values the codec is applied to
CodecLeaves ==
    { Null, Undefined, Bool(TRUE), Bool(FALSE),
      Num(0), Num(-24), Num(2024), Num(3), Num(-1),
      Str(<<>>), Str(KeyAB),
      Uint8Array(<<>>), Uint8Array(<<255>>), Uint8Array(<<1, 2>>),
      Uint8Array(<<77, 97, 110, 0>>),
      DateOf(0), DateOf(-1), DateOf(90061001),
      GeoPointOf(Num(3), Num(-4)),
      TimestampOf(1, 500000500), Increment(Num(2)) }
\* the values nested to any depth: one of each class that the encoder treats
\* in its own way
NestedCodecLeaves ==
    { Undefined, Num(-24), Num(3), Uint8Array(<<1, 2>>), DateOf(-1),
      Increment(Num(2)) }
CodecValues ==
    UNION { ValuesOfSize(n, CodecLeaves, {KeyA, KeyBC}, TRUE) : n \in 1..2 }
    \cup UNION { ValuesOfSize(n, NestedCodecLeaves, {KeyA, KeyBC}, TRUE)
                 : n \in 1..MaxValueNodes }

\* the strings the path functions are applied to
PathChars == {"a", "1", "_", "-", Backtick, Backslash, "."}
PathStrings == UNION { [1..n -> PathChars] : n \in 0..MaxPathLen }

\* the payloads of set and update: objects whose sentinels are values of
\* entries
PayloadLeaves ==
    { Num(10), DateOf(0), TimestampOf(1, 0), GeoPointOf(Num(3), Num(-4)),
      Uint8Array(<<7>>), List(<<Num(2)>>),
      ServerTimestamp, DeleteField, Increment(Num(10)),
      ArrayUnion(<<Num(2), Str(KeyA)>>), ArrayRemove(<<Str(KeyA)>>) }
\* the values of the payloads of more than one entry or level
NestedPayloadLeaves ==
    { Num(10), TimestampOf(1, 0), DeleteField, Increment(Num(10)),
      ArrayUnion(<<Num(2), Str(KeyA)>>) }
Payloads ==
    { v \in ValuesOfSize(2, PayloadLeaves, {KeyA, KeyBC, KeyAB}, FALSE)
      : v.t = "object" }
    \cup UNION { { v \in ValuesOfSize(n, NestedPayloadLeaves, {KeyA, KeyBC, KeyAB}, FALSE)
                   : v.t = "object" } : n \in 1..(MaxPayloadNodes + 1) }

(***************************************************************************)
(* Query: the constraints and the builder methods.  A Query object holds a *)
(* constraints object whose filters and orderBy are references to arrays   *)
(* of the heap; `{...this._constraints, k: v}` copies the references of    *)
(* the fields it does not replace.                                         *)
(***************************************************************************)
\* OPERATOR_MAP / getRestOperator
\* OPERATOR_MAP[op] is undefined for a token that is not a key of the table
OperatorTokens == {"==", ">", "<"}
NoOperator == "undefined"
GetRestOperator(op) ==
    CASE op = "==" -> "EQUAL"
      [] op = ">" -> "GREATER_THAN"
      [] op = "<" -> "LESS_THAN"
      [] OTHER -> NoOperator

\* the filter where() builds
FieldFilter(fieldPath, opStr, value) ==
    [field |-> fieldPath, op |-> GetRestOperator(opStr), value |-> ToFirestoreValue(value)]

\* the order orderBy() builds
Order(fieldPath, directionStr) ==
    [field |-> fieldPath,
     direction |-> IF directionStr = "asc" THEN "ASCENDING" ELSE "DESCENDING"]

\* new Query(firestore, path): constraints ?? {filters: [], orderBy: []}
EmptyConstraints(filtersRef, orderByRef) ==
    [filters |-> filtersRef, orderBy |-> orderByRef, limit |-> None,
     limitToLast |-> None, offset |-> None, startAt |-> None, endAt |-> None,
     select |-> None]

\* [...array, x]: a new array on the heap; the result is the heap and the
\* reference of the new array
SpreadAppendInPlace(heap, ref, x) ==
    [heap |-> [heap EXCEPT ![ref] = Append(@, x)], ref |-> ref]
SpreadAppend(heap, ref, x) ==
    [heap |-> Append(heap, Append(heap[ref], x)), ref |-> Len(heap) + 1]

\* limit(count): {...constraints, limit: count, limitToLast: undefined}
LimitConstraintsKeepOther(c, count) == [c EXCEPT !.limit = Some(count)]
LimitConstraints(c, count) == [c EXCEPT !.limit = Some(count), !.limitToLast = None]

\* limitToLast(count): {...constraints, limitToLast: count, limit: undefined}
LimitToLastConstraints(c, count) ==
    [c EXCEPT !.limitToLast = Some(count), !.limit = None]

\* offset(count): {...constraints, offset: count}
OffsetConstraints(c, count) == [c EXCEPT !.offset = Some(count)]

\* startAt / startAfter / endAt / endBefore
StartAtConstraints(c, values) ==
    [c EXCEPT !.startAt = Some([values |-> values, before |-> TRUE])]
StartAfterConstraints(c, values) ==
    [c EXCEPT !.startAt = Some([values |-> values, before |-> FALSE])]
EndAtConstraints(c, values) ==
    [c EXCEPT !.endAt = Some([values |-> values, before |-> FALSE])]
EndBeforeConstraints(c, values) ==
    [c EXCEPT !.endAt = Some([values |-> values, before |-> TRUE])]

\* select(...fields): {...constraints, select: fields}
SelectConstraints(c, fields) == [c EXCEPT !.select = Some(fields)]

\* _buildCursor
BuildCursorReversed(cursor) ==
    [values |-> [i \in 1..Len(cursor.values) |->
                    ToFirestoreValue(cursor.values[Len(cursor.values) + 1 - i])],
     before |-> cursor.before]
BuildCursor(cursor) ==
    [values |-> [i \in 1..Len(cursor.values) |-> ToFirestoreValue(cursor.values[i])],
     before |-> cursor.before]

\* _buildProjection
BuildProjection(fields) == [fields |-> fields]

\* the orderBy of the structured query: reversed for limitToLast
KeepDirection(o) == o
ReverseDirection(o) ==
    [o EXCEPT !.direction = IF @ = "ASCENDING" THEN "DESCENDING" ELSE "ASCENDING"]

\* documents.reverse()
Reverse(seq) == [i \in 1..Len(seq) |-> seq[Len(seq) + 1 - i]]

\* get(): the documents of the snapshot, from the items of the response
QueryGetDocuments(c, items) ==
    LET withDoc == SelectSeq(items, LAMBDA item : item.document # None)
        documents == [i \in 1..Len(withDoc) |-> withDoc[i].document.v]
    IN IF c.limitToLast # None THEN Reverse(documents) ELSE documents

\* _toStructuredQuery of the query with constraints c on heap
ToStructuredQuery(heap, c) ==
    LET filters == heap[c.filters]
        orderBy == heap[c.orderBy]
    IN [ where |-> IF Len(filters) = 1 THEN Some(filters[1])
                   ELSE IF Len(filters) > 1
                        THEN Some([op |-> "AND", filters |-> filters])
                        ELSE None,
         orderBy |-> IF Len(orderBy) > 0
                     THEN IF c.limitToLast # None
                          THEN Some([i \in 1..Len(orderBy) |-> ReverseDirection(orderBy[i])])
                          ELSE Some(orderBy)
                     ELSE None,
         limit |-> IF c.limit # None THEN c.limit ELSE c.limitToLast,
         offset |-> c.offset,
         startAt |-> IF c.startAt # None THEN Some(BuildCursor(c.startAt.v)) ELSE None,
         endAt |-> IF c.endAt # None THEN Some(BuildCursor(c.endAt.v)) ELSE None,
         select |-> IF c.select # None /\ Len(c.select.v) > 0
                    THEN Some(BuildProjection(c.select.v)) ELSE None ]

VARIABLES
    pc,          \* where each runTransaction call is
    maxAttempts, \* its maxAttempts
    attempt,     \* its loop counter
    lastError,   \* its lastError
    tx,          \* the Transaction handle of its current attempt
    result,      \* the callback's result in its current attempt
    outcome,     \* what the call returned or threw
    sent,        \* the request it has in flight
    applied,     \* backend: the commits applied, in order
    issued,      \* history: the token the backend gave its current attempt
    counts,      \* history: begin / callback / commit requests per call
    cbLast,      \* history: what the callback returned in its current attempt
    queued,      \* history: the writes queued before its callback returned, in call order
    allContention, \* history: every failed attempt so far failed by contention
    auth,        \* history: the getToken calls and bearer tokens of its current attempt
    queries,     \* the constraints object of each Query object made so far
    arrays,      \* the heap of filters and orderBy arrays
    lastCall,    \* history: the builder call of the last step and what it gave
    gets,        \* history: each get() call: its request, response and result
    value,       \* the native value given to the codec
    wire,        \* what toFirestoreValue gave for it
    decoded,     \* what fromFirestoreValue gave for that
    path,        \* the string given to the path functions
    quoted,      \* the last call of a path function and what it gave
    payload,     \* the payload given to set, update and the extractors
    write,       \* the last call on the payload and what it gave
    store,       \* backend: the documents of the collection, in name order
    snapshot     \* the last read of the document and what it gave

txvars == <<pc, maxAttempts, attempt, lastError, tx, result, outcome, sent,
            applied, issued, counts, cbLast, queued, allContention, auth>>
qvars == <<queries, arrays, lastCall, gets>>
pvars == <<value, wire, decoded, path, quoted, payload, write, store, snapshot>>
vars == <<txvars, qvars, pvars>>

\* one Query object, new Query(firestore, path), with its two empty arrays
QueryInit ==
    /\ arrays = << <<>>, <<>> >>
    /\ queries = << EmptyConstraints(1, 2) >>
    /\ lastCall = None
    /\ gets = <<>>

TxInit(calls) ==
    /\ pc = [t \in Procs |-> IF t \in calls THEN "idle" ELSE "unused"]
    /\ maxAttempts = [t \in Procs |-> 0]
    /\ attempt = [t \in Procs |-> 0]
    /\ lastError = [t \in Procs |-> None]
    /\ tx = [t \in Procs |-> None]
    /\ result = [t \in Procs |-> None]
    /\ outcome = [t \in Procs |-> None]
    /\ sent = [t \in Procs |-> None]
    /\ applied = <<>>
    /\ issued = [t \in Procs |-> NoToken]
    /\ counts = [t \in Procs |-> [begin |-> 0, callback |-> 0, commit |-> 0]]
    /\ cbLast = [t \in Procs |-> None]
    /\ queued = [t \in Procs |-> <<>>]
    /\ allContention = [t \in Procs |-> TRUE]
    /\ auth = [t \in Procs |-> NoAuth]

TxQueryInit(calls) == TxInit(calls) /\ QueryInit

\* no pure function is being exercised
CodecIdle == value = Null /\ wire = None /\ decoded = None
PathIdle == path = <<>> /\ quoted = None
WriteIdle == payload = PlainObject(<<>>) /\ write = None
ReadIdle == store = <<>> /\ snapshot = None
PureIdle == CodecIdle /\ PathIdle /\ WriteIdle /\ ReadIdle

InitWith(calls) == TxQueryInit(calls) /\ PureIdle

\* one runTransaction call
Init == InitWith({1})
\* two runTransaction calls on the same client
InitConc == InitWith(Procs)

(***************************************************************************)
(* runTransaction: the loop.                                               *)
(***************************************************************************)
\* the calls of the run, and whether they are concurrent
Calls == { t \in Procs : pc[t] # "unused" }
Concurrent == Cardinality(Calls) > 1

\* the maxAttempts options callers pass: omitted, or a number; two
\* concurrent calls each pass {maxAttempts: 2}
Options ==
    IF Concurrent THEN { [v |-> 2] }
    ELSE {None} \cup { [v |-> n] : n \in (-1)..MaxAttemptsOpt }

WriteLimit == IF Concurrent THEN MaxWritesConc ELSE MaxWrites

\* the reads a callback makes in one attempt: at most one when two calls
\* are concurrent
ReadLimit == IF Concurrent THEN 1 ELSE MaxReads

\* the writes a callback can queue: set, update or delete of a document
WriteOps == {"set", "update", "delete"}

\* the token the backend issues to the begin of attempt a of call t: a new
\* one each time
FreshToken(t, a) == <<t, a>>

\* The loop test with counter a: either the next attempt begins (the
\* beginTransaction request goes out) or the loop is left and
\* `throw lastError ?? new Error(...)` runs.
LoopTest(t, a, max, le) ==
    /\ attempt' = [attempt EXCEPT ![t] = a]
    /\ lastError' = [lastError EXCEPT ![t] = le]
    /\ tx' = [tx EXCEPT ![t] = None]
    /\ result' = [result EXCEPT ![t] = None]
    /\ cbLast' = [cbLast EXCEPT ![t] = None]
    /\ queued' = [queued EXCEPT ![t] = <<>>]
    /\ issued' = [issued EXCEPT ![t] = NoToken]
    /\ IF LoopContinues(a, max)
       THEN /\ pc' = [pc EXCEPT ![t] = "begin"]
            /\ sent' = [sent EXCEPT ![t] = BeginRequest]
            /\ counts' = [counts EXCEPT ![t].begin = @ + 1]
            /\ auth' = [auth EXCEPT ![t] = GetHeaders(NoAuth)]
            /\ outcome' = outcome
       ELSE /\ pc' = [pc EXCEPT ![t] = "thrown"]
            /\ outcome' = [outcome EXCEPT ![t] = [threw |-> ExhaustedError(le)]]
            /\ sent' = [sent EXCEPT ![t] = None]
            /\ auth' = [auth EXCEPT ![t] = NoAuth]
            /\ counts' = counts

\* catch (error): lastError = error; a retryable error continues the loop
\* (attempt++ and the loop test), any other is rethrown.
Catch(t, e) ==
    /\ allContention' = [allContention EXCEPT ![t] = @ /\ e.contention]
    /\ IF IsRetryable(e)
       THEN LoopTest(t, attempt[t] + 1, maxAttempts[t], e)
       ELSE /\ lastError' = [lastError EXCEPT ![t] = e]
            /\ pc' = [pc EXCEPT ![t] = "thrown"]
            /\ outcome' = [outcome EXCEPT ![t] = [threw |-> e]]
            /\ tx' = [tx EXCEPT ![t] = None]
            /\ result' = [result EXCEPT ![t] = None]
            /\ cbLast' = [cbLast EXCEPT ![t] = None]
            /\ queued' = [queued EXCEPT ![t] = <<>>]
            /\ issued' = [issued EXCEPT ![t] = NoToken]
            /\ sent' = [sent EXCEPT ![t] = None]
            /\ auth' = [auth EXCEPT ![t] = NoAuth]
            /\ UNCHANGED <<attempt, counts>>

\* runTransaction(updateFn, options) is called
RunTransaction(t, opt) ==
    /\ pc[t] = "idle"
    /\ maxAttempts' = [maxAttempts EXCEPT ![t] = MaxAttemptsOf(opt)]
    /\ LoopTest(t, 0, MaxAttemptsOf(opt), None)
    /\ UNCHANGED <<qvars, pvars, applied, allContention>>

\* beginTransaction answers with a new token; the handle is made and the
\* callback is invoked
BeginOk(t) ==
    /\ pc[t] = "begin"
    /\ tx' = [tx EXCEPT ![t] = NewTransaction(FreshToken(t, attempt[t]))]
    /\ issued' = [issued EXCEPT ![t] = FreshToken(t, attempt[t])]
    /\ sent' = [sent EXCEPT ![t] = None]
    /\ pc' = [pc EXCEPT ![t] = "callback"]
    /\ counts' = [counts EXCEPT ![t].callback = @ + 1]
    /\ UNCHANGED <<qvars, pvars, auth, maxAttempts, attempt, lastError, result, outcome,
                   applied, cbLast, queued, allContention>>

\* beginTransaction answers with a failure
BeginFail(t, e) ==
    /\ pc[t] = "begin"
    /\ e \in BackendErrors("begin", attempt[t])
    /\ Catch(t, e)
    /\ UNCHANGED <<qvars, pvars, maxAttempts, applied>>

\* the callback reads a document: Transaction.get sends the read and awaits it
TxGet(t) ==
    /\ pc[t] = "callback"
    /\ auth[t].reads < ReadLimit
    /\ auth' = [auth EXCEPT ![t] = [GetHeaders(@) EXCEPT !.reads = @ + 1]]
    /\ sent' = [sent EXCEPT ![t] = TransactionGet(tx[t])]
    /\ pc' = [pc EXCEPT ![t] = "reading"]
    /\ UNCHANGED <<qvars, pvars, maxAttempts, attempt, lastError, tx, result, outcome,
                   applied, issued, counts, cbLast, queued, allContention>>

\* the callback runs a query: Transaction.runQuery sends it and awaits it
TxRunQuery(t) ==
    /\ pc[t] = "callback"
    /\ auth[t].reads < ReadLimit
    /\ auth' = [auth EXCEPT ![t] = [GetHeaders(@) EXCEPT !.reads = @ + 1]]
    /\ sent' = [sent EXCEPT ![t] = TransactionRunQuery(tx[t])]
    /\ pc' = [pc EXCEPT ![t] = "reading"]
    /\ UNCHANGED <<qvars, pvars, maxAttempts, attempt, lastError, tx, result, outcome,
                   applied, issued, counts, cbLast, queued, allContention>>

\* the read is answered (a snapshot, existing or not) and the callback goes on
ReadOk(t) ==
    /\ pc[t] = "reading"
    /\ pc' = [pc EXCEPT ![t] = "callback"]
    /\ sent' = [sent EXCEPT ![t] = None]
    /\ UNCHANGED <<qvars, pvars, auth, maxAttempts, attempt, lastError, tx, result, outcome,
                   applied, issued, counts, cbLast, queued, allContention>>

\* the read fails at the backend and the callback lets the error through
ReadFail(t, e) ==
    /\ pc[t] = "reading"
    /\ e \in BackendErrors("read", attempt[t])
    /\ Catch(t, e)
    /\ UNCHANGED <<qvars, pvars, maxAttempts, applied>>

\* the callback queues a write: Transaction.set / update / delete.  A write
\* is the operation and the document; by and att record the call and the
\* attempt whose callback queued it.
TxWrite(t, op, d) ==
    /\ pc[t] = "callback"
    /\ Len(queued[t]) < WriteLimit
    /\ LET w == [op |-> op, doc |-> d, by |-> t, att |-> attempt[t]]
       IN /\ tx' = QueueWrite(tx, t, w)
          /\ queued' = [queued EXCEPT ![t] = Append(@, w)]
          /\ sent' = [sent EXCEPT ![t] = WriteIO(w)]
    /\ UNCHANGED <<qvars, pvars, auth, pc, maxAttempts, attempt, lastError, result, outcome,
                   applied, issued, counts, cbLast, allContention>>

\* the callback returns r: const result = await updateFn(transaction); then
\* _commitTransaction(transactionId, transaction._getWrites()) sends the commit
CallbackReturn(t, r) ==
    /\ pc[t] = "callback"
    /\ result' = [result EXCEPT ![t] = [v |-> r]]
    /\ cbLast' = [cbLast EXCEPT ![t] = [v |-> r]]
    /\ sent' = [sent EXCEPT ![t] = CommitRequest(tx[t].id, GetWrites(tx[t]))]
    /\ counts' = [counts EXCEPT ![t].commit = @ + 1]
    /\ auth' = [auth EXCEPT ![t] = GetHeaders(@)]
    /\ pc' = [pc EXCEPT ![t] = "commit"]
    /\ UNCHANGED <<qvars, pvars, maxAttempts, attempt, lastError, tx, outcome, applied,
                   issued, queued, allContention>>

\* the callback throws
CallbackThrow(t, e) ==
    /\ pc[t] = "callback"
    /\ e \in CallbackErrors(attempt[t])
    /\ Catch(t, e)
    /\ UNCHANGED <<qvars, pvars, maxAttempts, applied>>

\* the backend applies the commit it received, whole and in order, and
\* runTransaction returns the callback's result
CommitOk(t) ==
    /\ pc[t] = "commit"
    /\ applied' = Append(applied, [token |-> sent[t].token, writes |-> sent[t].writes])
    /\ outcome' = [outcome EXCEPT ![t] =
                      [returned |-> ReturnValue(result[t], [committed |-> TRUE])]]
    /\ pc' = [pc EXCEPT ![t] = "returned"]
    /\ sent' = [sent EXCEPT ![t] = None]
    /\ UNCHANGED <<qvars, pvars, auth, maxAttempts, attempt, lastError, tx, result,
                   issued, counts, cbLast, queued, allContention>>

\* the backend refuses the commit: nothing of it is applied
CommitFail(t, e) ==
    /\ pc[t] = "commit"
    /\ e \in BackendErrors("commit", attempt[t])
    /\ Catch(t, e)
    /\ UNCHANGED <<qvars, pvars, maxAttempts, applied>>

Next ==
    \E t \in Procs :
        \/ \E opt \in Options : RunTransaction(t, opt)
        \/ BeginOk(t)
        \/ \E e \in BackendErrors("begin", attempt[t]) : BeginFail(t, e)
        \/ TxGet(t)
        \/ TxRunQuery(t)
        \/ ReadOk(t)
        \/ \E e \in BackendErrors("read", attempt[t]) : ReadFail(t, e)
        \/ \E op \in WriteOps, d \in Docs : TxWrite(t, op, d)
        \/ \E r \in Results : CallbackReturn(t, r)
        \/ \E e \in CallbackErrors(attempt[t]) : CallbackThrow(t, e)
        \/ CommitOk(t)
        \/ \E e \in BackendErrors("commit", attempt[t]) : CommitFail(t, e)

\* one runTransaction call
Spec == Init /\ [][Next]_vars
\* two concurrent runTransaction calls
SpecConc == InitConc /\ [][Next]_vars

(***************************************************************************)
(* runTransaction with a callback that leaves work running when its        *)
(* promise resolves.  _commitTransaction receives the handle's _writes     *)
(* array itself and builds its request as                                  *)
(*   {method, headers: await this._getHeaders(true), body: JSON.stringify( *)
(*    {writes, transaction})}                                              *)
(* so the body is serialised when the token has arrived.                   *)
(***************************************************************************)
\* the callback's promise resolves with r: _commitTransaction is called with
\* transaction._getWrites() and awaits the token
CallbackResolve(t, r) ==
    /\ pc[t] = "callback"
    /\ result' = [result EXCEPT ![t] = [v |-> r]]
    /\ cbLast' = [cbLast EXCEPT ![t] = [v |-> r]]
    /\ sent' = [sent EXCEPT ![t] = None]
    /\ pc' = [pc EXCEPT ![t] = "token"]
    /\ UNCHANGED <<qvars, pvars, auth, maxAttempts, attempt, lastError, tx, outcome,
                   applied, issued, counts, queued, allContention>>

\* work the callback did not await calls set / update / delete on the
\* handle: the write is pushed onto the same _writes array
LateWrite(t, op, d) ==
    /\ pc[t] \in {"token", "commit"}
    /\ Len(tx[t].writes) < Len(queued[t]) + MaxLateWrites
    /\ tx' = QueueWrite(tx, t, [op |-> op, doc |-> d, by |-> t, att |-> attempt[t]])
    /\ UNCHANGED <<qvars, pvars, auth, pc, maxAttempts, attempt, lastError, result,
                   outcome, sent, applied, issued, counts, cbLast, queued,
                   allContention>>

\* the token arrives: the body is serialised from the array as it is now
\* and the commit is sent
CommitSend(t) ==
    /\ pc[t] = "token"
    /\ sent' = [sent EXCEPT ![t] = CommitRequest(tx[t].id, GetWrites(tx[t]))]
    /\ counts' = [counts EXCEPT ![t].commit = @ + 1]
    /\ auth' = [auth EXCEPT ![t] = GetHeaders(@)]
    /\ pc' = [pc EXCEPT ![t] = "commit"]
    /\ UNCHANGED <<qvars, pvars, maxAttempts, attempt, lastError, tx, result, outcome,
                   applied, issued, cbLast, queued, allContention>>

NextLate ==
    \E t \in Procs :
        \/ \E opt \in Options : RunTransaction(t, opt)
        \/ BeginOk(t)
        \/ \E e \in BackendErrors("begin", attempt[t]) : BeginFail(t, e)
        \/ TxGet(t)
        \/ TxRunQuery(t)
        \/ ReadOk(t)
        \/ \E e \in BackendErrors("read", attempt[t]) : ReadFail(t, e)
        \/ \E op \in WriteOps, d \in Docs : TxWrite(t, op, d)
        \/ \E r \in Results : CallbackResolve(t, r)
        \/ \E op \in WriteOps, d \in Docs : LateWrite(t, op, d)
        \/ CommitSend(t)
        \/ \E e \in CallbackErrors(attempt[t]) : CallbackThrow(t, e)
        \/ CommitOk(t)
        \/ \E e \in BackendErrors("commit", attempt[t]) : CommitFail(t, e)

\* one runTransaction call whose callback may leave work running
SpecLate == Init /\ [][NextLate]_vars

(***************************************************************************)
(* The query builder: each method is called on a Query object made so far  *)
(* and gives a new Query object, or throws.                                *)
(***************************************************************************)
Fields == {"a"}
FilterOps == {"==", ">", "=~"}
Directions == {"asc", "desc"}
FilterValues == { Num(2) }
Counts == (-1)..MaxCount
CursorValues == { << Num(2) >>, << Num(4), Str(KeyA) >> }

\* the Query objects there can be, and the guard of a builder call on q
QueryIds == 1..(MaxBuilds + 1)
CanBuild(q) == q <= Len(queries) /\ Len(queries) <= MaxBuilds
Call(op, recv, arg, ret) == [op |-> op, recv |-> recv, arg |-> arg, ret |-> ret]

\* return new Query(this._firestore, this._collectionPath, c)
NewQuery(op, recv, arg, c) ==
    /\ queries' = Append(queries, c)
    /\ lastCall' = Call(op, recv, arg, Len(queries) + 1)
    /\ UNCHANGED gets

\* throw new Error("... must be non-negative")
ThrowsAfterBuilding(op, recv, arg) ==
    /\ lastCall' = Call(op, recv, arg, 0)
    /\ queries' = Append(queries, queries[recv])
    /\ UNCHANGED <<arrays, gets>>
Throws(op, recv, arg) ==
    /\ lastCall' = Call(op, recv, arg, 0)
    /\ UNCHANGED <<queries, arrays, gets>>

Where(q, f, o, v) ==
    /\ CanBuild(q)
    /\ LET r == SpreadAppend(arrays, queries[q].filters, FieldFilter(f, o, v))
       IN /\ arrays' = r.heap
          /\ NewQuery("where", q, <<f, o, v>>, [queries[q] EXCEPT !.filters = r.ref])
    /\ UNCHANGED <<txvars, pvars>>

OrderBy(q, f, d) ==
    /\ CanBuild(q)
    /\ LET r == SpreadAppend(arrays, queries[q].orderBy, Order(f, d))
       IN /\ arrays' = r.heap
          /\ NewQuery("orderBy", q, <<f, d>>, [queries[q] EXCEPT !.orderBy = r.ref])
    /\ UNCHANGED <<txvars, pvars>>

Limit(q, n) ==
    /\ CanBuild(q)
    /\ IF n < 0 THEN Throws("limit", q, n)
       ELSE /\ NewQuery("limit", q, n, LimitConstraints(queries[q], n))
            /\ UNCHANGED arrays
    /\ UNCHANGED <<txvars, pvars>>

LimitToLast(q, n) ==
    /\ CanBuild(q)
    /\ IF n < 0 THEN Throws("limitToLast", q, n)
       ELSE /\ NewQuery("limitToLast", q, n, LimitToLastConstraints(queries[q], n))
            /\ UNCHANGED arrays
    /\ UNCHANGED <<txvars, pvars>>

Offset(q, n) ==
    /\ CanBuild(q)
    /\ IF n < 0 THEN Throws("offset", q, n)
       ELSE /\ NewQuery("offset", q, n, OffsetConstraints(queries[q], n))
            /\ UNCHANGED arrays
    /\ UNCHANGED <<txvars, pvars>>

StartAt(q, vs) ==
    /\ CanBuild(q)
    /\ NewQuery("startAt", q, vs, StartAtConstraints(queries[q], vs))
    /\ UNCHANGED <<arrays, txvars, pvars>>

StartAfter(q, vs) ==
    /\ CanBuild(q)
    /\ NewQuery("startAfter", q, vs, StartAfterConstraints(queries[q], vs))
    /\ UNCHANGED <<arrays, txvars, pvars>>

EndAt(q, vs) ==
    /\ CanBuild(q)
    /\ NewQuery("endAt", q, vs, EndAtConstraints(queries[q], vs))
    /\ UNCHANGED <<arrays, txvars, pvars>>

EndBefore(q, vs) ==
    /\ CanBuild(q)
    /\ NewQuery("endBefore", q, vs, EndBeforeConstraints(queries[q], vs))
    /\ UNCHANGED <<arrays, txvars, pvars>>

Select(q, fs) ==
    /\ CanBuild(q)
    /\ NewQuery("select", q, fs, SelectConstraints(queries[q], fs))
    /\ UNCHANGED <<arrays, txvars, pvars>>

\* what the backend answers to runQuery: a list of items, of which some
\* carry a document, or a non-success response
RunQueryResponses ==
    { [ok |-> TRUE, items |-> <<>>],
      [ok |-> TRUE, items |-> << [document |-> Some("x")], [document |-> Some("y")] >>],
      [ok |-> TRUE, items |-> << [document |-> None], [document |-> Some("y")],
                                 [document |-> Some("x")], [document |-> Some("z")] >>],
      [ok |-> FALSE, items |-> <<>>] }

\* get(): compile, _runQuery, keep the items with a document, reverse them
\* if limitToLast is set
Get(q, resp) ==
    /\ q <= Len(queries)
    /\ Len(gets) < MaxGets
    /\ LET request == ToStructuredQuery(arrays, queries[q])
       IN gets' = Append(gets,
              [recv |-> q, request |-> request, response |-> resp,
               ret |-> IF resp.ok
                       THEN Some(QueryGetDocuments(queries[q], resp.items))
                       ELSE None])
    /\ lastCall' = None
    /\ UNCHANGED <<queries, arrays, txvars, pvars>>

QueryNext ==
    \E q \in QueryIds :
        \/ \E f \in Fields, o \in FilterOps, v \in FilterValues : Where(q, f, o, v)
        \/ \E f \in Fields, d \in Directions : OrderBy(q, f, d)
        \/ \E n \in Counts : Limit(q, n)
        \/ \E n \in Counts : LimitToLast(q, n)
        \/ \E n \in Counts : Offset(q, n)
        \/ \E vs \in CursorValues : StartAt(q, vs)
        \/ \E vs \in CursorValues : StartAfter(q, vs)
        \/ \E vs \in CursorValues : EndAt(q, vs)
        \/ \E vs \in CursorValues : EndBefore(q, vs)
        \/ \E fs \in {<<f>> : f \in Fields} : Select(q, fs)

\* builder calls on one query and the queries derived from it
SpecQuery == Init /\ [][QueryNext]_vars

(***************************************************************************)
(* get() on a query.                                                       *)
(***************************************************************************)
\* the orderBy lists of the queries get() is called on
OrderLists ==
    UNION { [1..n -> { Order(f, d) : f \in Fields, d \in Directions }]
            : n \in 0..MaxOrders }

\* a query built by orderBy calls followed by limit(n), by limitToLast(n) or
\* by neither
InitGet ==
    /\ TxInit({1})
    /\ PureIdle
    /\ \E ords \in OrderLists, n \in 0..MaxCount,
          last \in {"limit", "limitToLast", "neither"} :
          /\ arrays = << <<>>, ords >>
          /\ queries = << CASE last = "limit" ->
                                 LimitConstraints(EmptyConstraints(1, 2), n)
                             [] last = "limitToLast" ->
                                 LimitToLastConstraints(EmptyConstraints(1, 2), n)
                             [] OTHER -> EmptyConstraints(1, 2) >>
    /\ lastCall = None
    /\ gets = <<>>

GetNext == \E q \in QueryIds, resp \in RunQueryResponses : Get(q, resp)

\* get() calls on one query
SpecGet == InitGet /\ [][GetNext]_vars

(***************************************************************************)
(* count() on a query.                                                     *)
(***************************************************************************)
\* delete structuredQuery.limit; delete structuredQuery.offset
CountQueryKeepOffset(sq) == [sq EXCEPT !.limit = None]
CountQuery(sq) == [sq EXCEPT !.limit = None, !.offset = None]

\* [{ alias: "count_alias", count: {} }]
CountAggregations == << [alias |-> "count_alias", count |-> <<>>] >>

\* what the backend answers to runAggregationQuery: a list of results or a
\* non-success response
AggregationResponses ==
    { [ok |-> TRUE, results |-> << [count_alias |-> 3] >>],
      [ok |-> TRUE, results |-> <<>>],
      [ok |-> FALSE, results |-> <<>>] }

\* _runAggregationQuery: throws unless response.ok, else results[0] or an
\* empty result
RunAggregationQuery(resp) ==
    IF ~resp.ok THEN None
    ELSE IF Len(resp.results) > 0 THEN Some(resp.results[1])
         ELSE Some([aggregateFields |-> <<>>])

\* count(): compile, delete limit and offset, _runAggregationQuery with the
\* one count aggregation
Count(q, resp) ==
    /\ q <= Len(queries)
    /\ Len(gets) < MaxGets
    /\ gets' = Append(gets,
           [recv |-> q,
            request |-> CountQuery(ToStructuredQuery(arrays, queries[q])),
            aggregations |-> CountAggregations,
            response |-> resp,
            ret |-> RunAggregationQuery(resp)])
    /\ lastCall' = None
    /\ UNCHANGED <<queries, arrays, txvars, pvars>>

\* a query with or without a filter, an order, limit(n) or limitToLast(n),
\* and offset(m)
InitCount ==
    /\ TxInit({1})
    /\ PureIdle
    /\ \E filts \in { <<>>, << FieldFilter("a", ">", Num(2)) >> },
          ords \in { <<>>, << Order("a", "asc") >> },
          n \in 0..MaxCount, last \in {"limit", "limitToLast", "neither"},
          off \in {None} \cup { Some(m) : m \in 0..MaxCount } :
          /\ arrays = << filts, ords >>
          /\ queries =
                << [ (CASE last = "limit" ->
                              LimitConstraints(EmptyConstraints(1, 2), n)
                        [] last = "limitToLast" ->
                              LimitToLastConstraints(EmptyConstraints(1, 2), n)
                        [] OTHER -> EmptyConstraints(1, 2))
                     EXCEPT !.offset = off ] >>
    /\ lastCall = None
    /\ gets = <<>>

CountNext ==
    \E q \in QueryIds :
        \/ \E resp \in AggregationResponses : Count(q, resp)
        \/ \E resp \in RunQueryResponses : Get(q, resp)

\* count() and get() calls on one query
SpecCount == InitCount /\ [][CountNext]_vars

(***************************************************************************)
(* Reading one document: DocumentReference.get and Transaction.get.        *)
(***************************************************************************)
\* a FirestoreDocument: its fields property is optional, and the JSON of a
\* document that has no field carries no fields property
Document(fields) == [name |-> DocName, fields |-> fields]

\* the documents the backend can hold under the name read
StoredDocuments ==
    { Document(None), Document(Some(<<>>)) }
    \cup { Document(Some(ToFirestoreFields(d))) : d \in { v \in CodecValues : v.t = "object" } }

\* the replies to GET documents/{name} and to POST documents:batchGet
GetReplies ==
    { [status |-> 404], [status |-> 500], [status |-> 403] }
    \cup { [status |-> 200, body |-> doc] : doc \in StoredDocuments }
BatchGetReplies ==
    { [status |-> 404], [status |-> 500],
      [status |-> 200, results |-> << [missing |-> DocName] >>] }
    \cup { [status |-> 200, results |-> << [found |-> doc] >>] : doc \in StoredDocuments }

\* the reply a backend holding st gives when it does not fail
GetReplyOf(st) ==
    IF st = <<>> THEN [status |-> 404] ELSE [status |-> 200, body |-> st[1]]
BatchGetReplyOf(st) ==
    [status |-> 200,
     results |-> IF st = <<>> THEN << [missing |-> DocName] >>
                 ELSE << [found |-> st[1] ] >>]

\* response.ok
Ok(reply) == reply.status \in 200..299

\* _getDocument(path): null, the document, or a throw
GetDocumentSingle(reply) ==
    IF reply.status = 404 THEN [threw |-> FALSE, doc |-> None]
    ELSE IF ~ Ok(reply) THEN [threw |-> TRUE, doc |-> None]
    ELSE [threw |-> FALSE, doc |-> Some(reply.body)]

\* _getDocument(path, transactionId): results[0]?.found or null, or a throw
GetDocumentBatch(reply) ==
    IF ~ Ok(reply) THEN [threw |-> TRUE, doc |-> None]
    ELSE IF Len(reply.results) > 0 /\ "found" \in DOMAIN reply.results[1]
    THEN [threw |-> FALSE, doc |-> Some(reply.results[1].found)]
    ELSE [threw |-> FALSE, doc |-> None]

\* new DocumentSnapshotImpl(doc, path): if (doc && doc.fields)
DocumentSnapshotImpl(doc) ==
    IF doc # None /\ doc.v.fields # None
    THEN [exists |-> TRUE, data |-> Some(FromFirestoreFields(doc.v.fields.v))]
    ELSE [exists |-> FALSE, data |-> None]

\* what a read gives: the error thrown, or the snapshot
ReadResult(got) ==
    IF got.threw THEN [threw |-> TRUE, exists |-> FALSE, data |-> None]
    ELSE [threw |-> FALSE] @@ DocumentSnapshotImpl(got.doc)

\* DocumentReference.get()
DocumentGet(reply) ==
    /\ reply = GetReplyOf(store) \/ ~ Ok(reply)
    /\ reply.status = 404 => store = <<>>
    /\ snapshot' = [api |-> "DocumentReference.get", reply |-> reply]
                   @@ ReadResult(GetDocumentSingle(reply))
    /\ UNCHANGED <<store, value, wire, decoded, path, quoted, payload, write,
                   txvars, qvars>>

\* Transaction.get(ref)
TransactionGetDocument(reply) ==
    /\ reply = BatchGetReplyOf(store) \/ ~ Ok(reply)
    /\ snapshot' = [api |-> "Transaction.get", reply |-> reply]
                   @@ ReadResult(GetDocumentBatch(reply))
    /\ UNCHANGED <<store, value, wire, decoded, path, quoted, payload, write,
                   txvars, qvars>>

ReadNext ==
    \/ \E reply \in GetReplies : DocumentGet(reply)
    \/ \E reply \in BatchGetReplies : TransactionGetDocument(reply)

\* the document read is absent from the backend or stored in it
InitRead ==
    /\ TxQueryInit({})
    /\ CodecIdle /\ PathIdle /\ WriteIdle
    /\ store \in {<<>>} \cup { << doc >> : doc \in StoredDocuments }
    /\ snapshot = None

\* reads of one document
SpecRead == InitRead /\ [][ReadNext]_vars

(***************************************************************************)
(* get() against a backend that evaluates the structured query: the        *)
(* documents of the collection have a name and a number in field a; the    *)
(* backend filters, orders (ties by name, in the direction of the order),  *)
(* cuts at the cursors, skips the offset and keeps the limit.              *)
(***************************************************************************)
\* the numbers of field a, and the collections: document i has name i
DocValues == 1..3
Collections ==
    UNION { { [i \in 1..n |-> [name |-> i, a |-> f[i]]] : f \in [1..n -> DocValues] }
            : n \in 0..MaxDocs }

\* twice the number a wire value stands for
WireTwice(w) == FromFirestoreValue(w).twice

\* the document satisfies the field filter
MatchesFilter(doc, f) ==
    CASE f.op = "EQUAL" -> 2 * doc.a = WireTwice(f.value)
      [] f.op = "GREATER_THAN" -> 2 * doc.a > WireTwice(f.value)
      [] f.op = "LESS_THAN" -> 2 * doc.a < WireTwice(f.value)
      [] OTHER -> FALSE

\* the document satisfies the where of the structured query
MatchesWhere(doc, where) ==
    IF where = None THEN TRUE
    ELSE IF "filters" \in DOMAIN where.v
    THEN \A i \in 1..Len(where.v.filters) : MatchesFilter(doc, where.v.filters[i])
    ELSE MatchesFilter(doc, where.v)

\* the direction of the result: that of the first order, ascending if none
DirectionOf(orderBy) ==
    IF orderBy = None THEN "ASCENDING" ELSE orderBy.v[1].direction

\* d comes before e in the result
Precedes(d, e, dir, byField) ==
    LET k == IF byField THEN d.a - e.a ELSE 0
    IN IF dir = "ASCENDING" THEN k < 0 \/ (k = 0 /\ d.name < e.name)
       ELSE k > 0 \/ (k = 0 /\ d.name > e.name)

\* the documents of S in the order of the result
RECURSIVE SortDocs(_, _, _)
SortDocs(S, dir, byField) ==
    IF S = {} THEN <<>>
    ELSE LET first == CHOOSE d \in S :
                          \A e \in S \ {d} : Precedes(d, e, dir, byField)
         IN << first >> \o SortDocs(S \ {first}, dir, byField)

\* where the document stands against the cursor in the order of the
\* result: negative before it, zero at it, positive after it
AgainstCursor(doc, cursor, dir) ==
    IF dir = "ASCENDING" THEN 2 * doc.a - WireTwice(cursor.values[1])
    ELSE WireTwice(cursor.values[1]) - 2 * doc.a

\* the answer of the backend to the structured query sq on the documents
BackendRunQuery(sq, documents) ==
    LET dir == DirectionOf(sq.orderBy)
        matched == { documents[i] : i \in { j \in 1..Len(documents) :
                                               MatchesWhere(documents[j], sq.where) } }
        sorted == SortDocs(matched, dir, sq.orderBy # None)
        started == SelectSeq(sorted, LAMBDA d :
                      \/ sq.startAt = None
                      \/ IF sq.startAt.v.before
                         THEN AgainstCursor(d, sq.startAt.v, dir) >= 0
                         ELSE AgainstCursor(d, sq.startAt.v, dir) > 0)
        ended == SelectSeq(started, LAMBDA d :
                      \/ sq.endAt = None
                      \/ IF sq.endAt.v.before
                         THEN AgainstCursor(d, sq.endAt.v, dir) < 0
                         ELSE AgainstCursor(d, sq.endAt.v, dir) <= 0)
        skipped == IF sq.offset = None THEN ended
                   ELSE SubSeq(ended, sq.offset.v + 1, Len(ended))
        limited == IF sq.limit = None \/ sq.limit.v >= Len(skipped) THEN skipped
                   ELSE SubSeq(skipped, 1, sq.limit.v)
    IN [ok |-> TRUE, items |-> [i \in 1..Len(limited) |-> [document |-> Some(limited[i])]]]

\* get() on q, answered by the backend from the collection
GetFromStore(q) ==
    /\ q <= Len(queries)
    /\ Get(q, BackendRunQuery(ToStructuredQuery(arrays, queries[q]), store))

\* the cursors of the queries: none, or one on a number
CursorsDrawn(before) ==
    {None} \cup { Some([values |-> << Num(2 * v) >>, before |-> b])
                   : v \in {2}, b \in before }

\* a collection, and a query ordered by field a with limitToLast(n), with or
\* without a filter, an offset, a start cursor and an end cursor
InitLast ==
    /\ TxInit({1})
    /\ CodecIdle /\ PathIdle /\ WriteIdle
    /\ store \in Collections
    /\ snapshot = None
    /\ \E filts \in { <<>>, << FieldFilter("a", ">", Num(2)) >> },
          d \in Directions, n \in 0..(MaxCount + 1),
          off \in {None} \cup { Some(m) : m \in 0..MaxCount },
          sa \in CursorsDrawn(BOOLEAN), ea \in CursorsDrawn(BOOLEAN) :
          /\ arrays = << filts, << Order("a", d) >> >>
          /\ queries =
                << [ LimitToLastConstraints(EmptyConstraints(1, 2), n)
                     EXCEPT !.offset = off, !.startAt = sa, !.endAt = ea ] >>
    /\ lastCall = None
    /\ gets = <<>>

LastNext == \E q \in QueryIds : GetFromStore(q)

\* get() calls on a limitToLast query of a collection
SpecLast == InitLast /\ [][LastNext]_vars

(***************************************************************************)
(* Properties of the transaction coordinator.                              *)
(***************************************************************************)
InAttempt(t) == pc[t] \in {"begin", "callback", "reading", "commit"}
Ceiling(t) == IF maxAttempts[t] < 0 THEN 0 ELSE maxAttempts[t]
AppliedTokens == { applied[i].token : i \in 1..Len(applied) }
TokensOf(t) == { FreshToken(t, a) : a \in 0..(DefaultMaxAttempts + MaxAttemptsOpt) }

\* begin, callback and commit happen at most maxAttempts times per call
AttemptsBounded ==
    \A t \in Procs :
        /\ counts[t].begin <= Ceiling(t)
        /\ counts[t].callback <= counts[t].begin
        /\ counts[t].commit <= counts[t].callback
        /\ attempt[t] <= Ceiling(t)

\* C1: a runTransaction call makes at most maxAttempts attempts (begin,
\* callback and commit at most maxAttempts times each), and an attempt after
\* the first starts only after the previous attempt failed with a contention
\* error reported by the backend.
C1_BoundedRetryOnContention ==
    /\ AttemptsBounded
    /\ \A t \in Procs :
          (InAttempt(t) /\ attempt[t] > 0) =>
              /\ lastError[t] # None
              /\ lastError[t].att = attempt[t] - 1
              /\ lastError[t].contention

\* C2: the handle of an attempt carries the token the backend issued to that
\* attempt's begin and only writes queued in that attempt; the commit carries
\* that token and those writes; a call that returns returns what the callback
\* returned in the committing attempt, the callback having run once per attempt.
C2_FreshPerAttempt ==
    \A t \in Procs :
        /\ tx[t] # None =>
              /\ tx[t].id = issued[t]
              /\ issued[t] = FreshToken(t, attempt[t])
              /\ \A i \in 1..Len(tx[t].writes) :
                    tx[t].writes[i].by = t /\ tx[t].writes[i].att = attempt[t]
        /\ pc[t] = "commit" =>
              /\ sent[t].op = "commit"
              /\ sent[t].token = issued[t]
              /\ \A i \in 1..Len(sent[t].writes) :
                    sent[t].writes[i].by = t /\ sent[t].writes[i].att = attempt[t]
        /\ pc[t] = "returned" =>
              /\ cbLast[t] # None
              /\ outcome[t] = [returned |-> cbLast[t]]
        /\ (pc[t] = "returned" /\ attempt[t] = 1 /\ lastError[t].src = "commit") =>
              counts[t].callback = 2

\* C2 witness: the first commit was aborted and the second attempt committed
\* the writes its callback queued
C2_Witness ==
    /\ pc[1] = "returned"
    /\ attempt[1] = 1
    /\ lastError[1].src = "commit" /\ lastError[1].contention
    /\ counts[1].callback = 2
    /\ Len(applied) = 1 /\ Len(applied[1].writes) > 0

\* C3: an error raised in an attempt that is not a contention failure
\* reported by the backend is thrown to the caller at once, as that error.
C3_OtherFailurePropagates ==
    [][ \A t \in Procs :
          ( /\ lastError'[t] # lastError[t]
            /\ lastError'[t] # None
            /\ ~ lastError'[t].contention )
          => ( pc'[t] = "thrown" /\ outcome'[t] = [threw |-> lastError'[t]] ) ]_vars

\* C4: when each of the maxAttempts >= 1 attempts failed by contention, the
\* call throws the contention error of the last attempt and the backend has
\* applied no commit of the call.
C4_ExhaustedThrowsLast ==
    \A t \in Procs :
        ( /\ pc[t] = "thrown"
          /\ maxAttempts[t] >= 1
          /\ attempt[t] = maxAttempts[t]
          /\ allContention[t] )
        => /\ lastError[t] # None
           /\ lastError[t].contention
           /\ lastError[t].att = maxAttempts[t] - 1
           /\ outcome[t] = [threw |-> lastError[t]]
           /\ AppliedTokens \cap TokensOf(t) = {}

\* C4 witness: two attempts, the first aborted at commit, the second too
C4_Witness ==
    /\ pc[1] = "thrown"
    /\ maxAttempts[1] = 2 /\ attempt[1] = 2
    /\ allContention[1]
    /\ lastError[1].src = "commit" /\ counts[1].commit = 2

\* C5: the handle's write list is the writes queued on it, in call order, and
\* the commit of the attempt sends that list, once.
C5_AppendOnlyOrdered ==
    \A t \in Procs :
        /\ tx[t] # None => tx[t].writes = queued[t]
        /\ pc[t] = "commit" => sent[t].op = "commit" /\ sent[t].writes = queued[t]
        /\ InAttempt(t) \/ pc[t] = "returned" =>
              counts[t].commit <= attempt[t] + 1
        /\ pc[t] \in {"begin", "callback", "reading"} =>
              counts[t].commit <= attempt[t]

\* C5 witness: a commit in flight with two different writes
C5_Witness ==
    /\ pc[1] = "commit"
    /\ Len(sent[1].writes) = 2
    /\ sent[1].writes[1] # sent[1].writes[2]

\* C6: queuing a write sends nothing; the only request with writes is a
\* commit, in flight only after begin gave a token and the callback returned;
\* every commit the backend applied is the commit of an attempt whose
\* callback returned.
C6_WritesOnlyAtCommit ==
    /\ \A t \in Procs :
          /\ pc[t] = "callback" => sent[t] = None
          /\ (sent[t] # None /\ sent[t].writes # <<>>) => sent[t].op = "commit"
          /\ (sent[t] # None /\ sent[t].op = "commit") =>
                /\ pc[t] = "commit"
                /\ issued[t] # NoToken
                /\ cbLast[t] # None
          /\ counts[t].commit <= counts[t].callback
          /\ counts[t].callback <= counts[t].begin
    /\ \A i \in 1..Len(applied) :
          \E t \in Procs :
              /\ pc[t] = "returned"
              /\ applied[i].token = issued[t]
              /\ applied[i].writes = queued[t]

\* C6 witness: a callback has queued its writes and no request is in flight
C6_Witness ==
    /\ pc[1] = "callback"
    /\ Len(queued[1]) = MaxWrites
    /\ sent[1] = None
    /\ applied = <<>>

C8_Isolation ==
    \A t \in Procs :
        /\ tx[t] # None =>
              /\ tx[t].id = issued[t]
              /\ tx[t].writes = queued[t]
              /\ \A i \in 1..Len(tx[t].writes) : tx[t].writes[i].by = t
        /\ pc[t] = "commit" =>
              /\ sent[t].token = FreshToken(t, attempt[t])
              /\ sent[t].writes = queued[t]
        /\ InAttempt(t) => counts[t].begin = attempt[t] + 1
        /\ \A u \in Procs \ {t} : issued[t] # NoToken => issued[t] # issued[u]

\* C8 witness: both calls have a commit in flight, each with its own write
C8_Witness ==
    /\ pc[1] = "commit" /\ pc[2] = "commit"
    /\ Len(sent[1].writes) > 0 /\ Len(sent[2].writes) > 0
    /\ sent[1].writes # sent[2].writes(***************************************************************************)
(* The value codec applied to a value.                                     *)
(***************************************************************************)
\* toFirestoreValue(value)
Encode ==
    /\ wire = None
    /\ wire' = Some(ToFirestoreValue(value))
    /\ UNCHANGED <<value, decoded, path, quoted, payload, write, store, snapshot, txvars, qvars>>

\* fromFirestoreValue(wire)
Decode ==
    /\ wire # None
    /\ decoded = None
    /\ decoded' = Some(FromFirestoreValue(wire.v))
    /\ UNCHANGED <<value, wire, path, quoted, payload, write, store, snapshot, txvars, qvars>>

CodecNext == Encode \/ Decode

InitCodec ==
    /\ TxQueryInit({})
    /\ value \in CodecValues /\ wire = None /\ decoded = None
    /\ PathIdle /\ WriteIdle /\ ReadIdle

\* a value is encoded, and what that gives is decoded
SpecCodec == InitCodec /\ [][CodecNext]_vars

(***************************************************************************)
(* The path functions applied to a string.                                 *)
(***************************************************************************)
\* quoteFieldPathSegment(path)
QuoteSegmentCall ==
    /\ quoted' = [fn |-> "quoteFieldPathSegment", ret |-> QuoteFieldPathSegment(path)]
    /\ UNCHANGED <<path, value, wire, decoded, payload, write, store, snapshot, txvars, qvars>>

\* quoteFieldPath(path)
QuotePathCall ==
    /\ quoted' = [fn |-> "quoteFieldPath", ret |-> QuoteFieldPath(path)]
    /\ UNCHANGED <<path, value, wire, decoded, payload, write, store, snapshot, txvars, qvars>>

PathNext == QuoteSegmentCall \/ QuotePathCall

InitPath ==
    /\ TxQueryInit({})
    /\ path \in PathStrings /\ quoted = None
    /\ CodecIdle /\ WriteIdle /\ ReadIdle

\* the two quoting functions are called on a string
SpecPath == InitPath /\ [][PathNext]_vars

(***************************************************************************)
(* set, update and the extractors applied to a payload.                    *)
(***************************************************************************)
\* the payload with its dotted keys spelled as nested objects
RECURSIVE PutNested(_, _, _)
PutNested(entries, parts, v) ==
    LET i == IF \E k \in 1..Len(entries) : entries[k].k = parts[1]
             THEN CHOOSE k \in 1..Len(entries) : entries[k].k = parts[1]
             ELSE 0
        inner == IF i # 0 /\ entries[i].v.t = "object" THEN entries[i].v.entries
                 ELSE <<>>
        new == IF Len(parts) = 1 THEN v
               ELSE PlainObject(PutNested(inner, Tail(parts), v))
    IN IF i = 0 THEN Append(entries, Entry(parts[1], new))
       ELSE [entries EXCEPT ![i] = Entry(parts[1], new)]
RECURSIVE NestedForm(_), NestedEntries(_, _)
NestedEntries(entries, acc) ==
    IF entries = <<>> THEN acc
    ELSE NestedEntries(Tail(entries),
             PutNested(acc, Split(Head(entries).k, "."), NestedForm(Head(entries).v)))
NestedForm(v) ==
    IF v.t = "object" THEN PlainObject(NestedEntries(v.entries, <<>>)) ELSE v

\* the four lists of paths and transforms of a payload
PathLists(data) ==
    [fieldPaths |-> GetFieldPaths(data, <<>>),
     deleteFields |-> ExtractDeleteFields(data, <<>>),
     transformFields |-> ExtractTransformFields(data, <<>>),
     transforms |-> ExtractFieldTransforms(data, <<>>)]

\* Transaction.set(ref, payload, {merge})
TransactionSet(merge) ==
    /\ write' = [api |-> "Transaction.set", merge |-> merge] @@ SetWrites(payload, merge)
    /\ UNCHANGED <<payload, value, wire, decoded, path, quoted, store, snapshot, txvars, qvars>>

\* DocumentReference.set(payload, {merge}): Firestore._setDocument
SetDocument(merge) ==
    /\ write' = [api |-> "set", merge |-> merge] @@ SetWrites(payload, merge)
    /\ UNCHANGED <<payload, value, wire, decoded, path, quoted, store, snapshot, txvars, qvars>>

\* Transaction.update(ref, payload)
TransactionUpdate ==
    /\ write' = [api |-> "Transaction.update", merge |-> FALSE]
                @@ TransactionUpdateWrites(payload)
    /\ UNCHANGED <<payload, value, wire, decoded, path, quoted, store, snapshot, txvars, qvars>>

\* DocumentReference.update(payload): Firestore._updateDocument
UpdateDocument ==
    /\ write' = [api |-> "update", merge |-> FALSE] @@ UpdateDocumentWrites(payload)
    /\ UNCHANGED <<payload, value, wire, decoded, path, quoted, store, snapshot, txvars, qvars>>

\* getFieldPaths and the three extractors, called on the payload and on its
\* nested form
Extract ==
    /\ write' = [api |-> "extract", flat |-> PathLists(payload),
                 nested |-> PathLists(NestedForm(payload))]
    /\ UNCHANGED <<payload, value, wire, decoded, path, quoted, store, snapshot, txvars, qvars>>

WriteNext ==
    \/ \E merge \in BOOLEAN : TransactionSet(merge)
    \/ \E merge \in BOOLEAN : SetDocument(merge)
    \/ TransactionUpdate
    \/ UpdateDocument
    \/ Extract

InitWrite ==
    /\ TxQueryInit({})
    /\ payload \in Payloads /\ write = None
    /\ CodecIdle /\ PathIdle /\ ReadIdle

\* the write functions are called on a payload
SpecWrite == InitWrite /\ [][WriteNext]_vars


(***************************************************************************)
(* Properties of the query builder.                                        *)
(***************************************************************************)
Compiled(q) == ToStructuredQuery(arrays, queries[q])

\* C9: a builder call leaves every query made so far compiling to the same
\* structured query as before the call, and what it returns is a new query,
\* not the receiver.
C9_BuildersLeaveReceiver ==
    [][ /\ \A q \in QueryIds :
              q <= Len(queries) =>
                  /\ q <= Len(queries')
                  /\ ToStructuredQuery(arrays', queries'[q]) =
                         ToStructuredQuery(arrays, queries[q])
        /\ (lastCall' # None /\ lastCall'.ret # 0) =>
              /\ Len(queries') = Len(queries) + 1
              /\ lastCall'.ret = Len(queries')
              /\ lastCall'.ret # lastCall'.recv ]_vars

\* C9 witness: where() was called on a query derived from the first one; the
\* first one still has no filter and the new one has two
C9_Witness ==
    /\ Len(queries) = 3
    /\ lastCall.op = "where" /\ lastCall.recv = 2 /\ lastCall.ret = 3
    /\ Compiled(1).where = None
    /\ Compiled(2).where # None
    /\ Compiled(3).where # None /\ Compiled(3).where.v.op = "AND"

\* what limit and limitToLast leave alone
SameOtherConstraints(new, old) ==
    /\ arrays[new.filters] = arrays[old.filters]
    /\ arrays[new.orderBy] = arrays[old.orderBy]
    /\ new.offset = old.offset
    /\ new.startAt = old.startAt
    /\ new.endAt = old.endAt
    /\ new.select = old.select

\* C10: no query has both limit and limitToLast; limit(n) gives a query with
\* limit n and no limitToLast, limitToLast(n) one with limitToLast n and no
\* limit, the other constraints being those of the receiver.
C10_LimitXorLimitToLast ==
    /\ \A q \in 1..Len(queries) :
          ~ (queries[q].limit # None /\ queries[q].limitToLast # None)
    /\ (lastCall # None /\ lastCall.ret # 0 /\ lastCall.op = "limit") =>
          /\ queries[lastCall.ret].limit = Some(lastCall.arg)
          /\ queries[lastCall.ret].limitToLast = None
          /\ Compiled(lastCall.ret).limit = Some(lastCall.arg)
          /\ SameOtherConstraints(queries[lastCall.ret], queries[lastCall.recv])
    /\ (lastCall # None /\ lastCall.ret # 0 /\ lastCall.op = "limitToLast") =>
          /\ queries[lastCall.ret].limitToLast = Some(lastCall.arg)
          /\ queries[lastCall.ret].limit = None
          /\ Compiled(lastCall.ret).limit = Some(lastCall.arg)
          /\ SameOtherConstraints(queries[lastCall.ret], queries[lastCall.recv])

\* C10 witness: limit() was called on a query that had limitToLast set
C10_Witness ==
    /\ lastCall # None /\ lastCall.ret # 0 /\ lastCall.op = "limit"
    /\ queries[lastCall.recv].limitToLast # None
    /\ queries[lastCall.recv].limitToLast # Some(lastCall.arg)

(***************************************************************************)
(* Properties of query execution and of the count arguments.               *)
(***************************************************************************)
\* the documents of a runQuery response, in the backend's order
BackendDocuments(items) ==
    LET RECURSIVE DocsUpTo(_)
        DocsUpTo(k) == IF k = 0 THEN <<>>
                   ELSE IF items[k].document = None THEN DocsUpTo(k - 1)
                   ELSE Append(DocsUpTo(k - 1), items[k].document.v)
    IN DocsUpTo(Len(items))
Opposite(direction) == IF direction = "ASCENDING" THEN "DESCENDING" ELSE "ASCENDING"

\* C11: a get() on a query with limitToLast(n) sends a structured query whose
\* orderBy clauses are those requested, each with the opposite direction, and
\* whose limit is n, and returns the backend's documents in reversed order; a
\* get() on a query without limitToLast sends the requested orderBy unchanged
\* and returns the documents in the backend's order.
C11_LimitToLastReverses ==
    \A i \in 1..Len(gets) :
        LET g == gets[i]
            c == queries[g.recv]
            requested == arrays[c.orderBy]
            sentOrder == g.request.orderBy
        IN /\ (requested = <<>>) <=> (sentOrder = None)
           /\ (requested # <<>>) => Len(sentOrder.v) = Len(requested)
           /\ IF c.limitToLast # None
              THEN /\ g.request.limit = c.limitToLast
                   /\ \A j \in 1..Len(requested) :
                         /\ sentOrder.v[j].field = requested[j].field
                         /\ sentOrder.v[j].direction = Opposite(requested[j].direction)
                   /\ g.ret # None =>
                         g.ret.v = Reverse(BackendDocuments(g.response.items))
              ELSE /\ g.request.limit = c.limit
                   /\ (requested # <<>>) => sentOrder.v = requested
                   /\ g.ret # None => g.ret.v = BackendDocuments(g.response.items)

\* C11 witness: a query ordered by a ascending with limitToLast(1) was run,
\* the backend answered y, x, z and get() returned z, x, y
C11_Witness ==
    /\ Len(gets) = 1
    /\ queries[gets[1].recv].limitToLast = Some(1)
    /\ arrays[queries[gets[1].recv].orderBy] = << Order("a", "asc") >>
    /\ gets[1].request.orderBy = Some(<< Order("a", "desc") >>)
    /\ gets[1].request.limit = Some(1)
    /\ gets[1].ret = Some(<<"z", "x", "y">>)

\* C12: limit(n), limitToLast(n) and offset(n) with a negative n throw at the
\* call: the step makes no new query, changes no query and no array, and
\* sends no request; no query holds a negative count and no request carries one.
C12_NegativeCountRejected ==
    [][ /\ (/\ lastCall' # None
            /\ lastCall'.op \in {"limit", "limitToLast", "offset"}
            /\ lastCall'.arg < 0) =>
               /\ lastCall'.ret = 0
               /\ queries' = queries
               /\ arrays' = arrays
               /\ gets' = gets
        /\ \A q \in 1..Len(queries') :
              \A n \in {queries'[q].limit, queries'[q].limitToLast, queries'[q].offset} :
                  n # None => n.v >= 0
        /\ \A i \in 1..Len(gets') :
              \A n \in {gets'[i].request.limit, gets'[i].request.offset} :
                  n # None => n.v >= 0 ]_vars

\* C12 witness: limitToLast(-1) was called on a query derived from the first
\* one and threw
C12_Witness ==
    /\ lastCall # None
    /\ lastCall.op = "limitToLast" /\ lastCall.arg = -1 /\ lastCall.ret = 0
    /\ lastCall.recv = 2
    /\ Len(queries) = 2
    /\ gets = <<>>

(***************************************************************************)
(* Properties of the value codec.                                          *)
(***************************************************************************)
\* the values of the supported domain: null, undefined, booleans, numbers,
\* strings, byte buffers, dates, geopoints, and lists and objects of them
RECURSIVE InSupportedDomain(_)
InSupportedDomain(v) ==
    CASE v.t \in {"null", "undefined", "boolean", "number", "string",
                  "Uint8Array", "Date", "GeoPoint"} -> TRUE
      [] v.t = "Array" -> \A i \in 1..Len(v.items) : InSupportedDomain(v.items[i])
      [] v.t = "object" -> \A i \in 1..Len(v.entries) : InSupportedDomain(v.entries[i].v)
      [] OTHER -> FALSE

\* the value with null for every undefined in it
RECURSIVE UndefinedAsNull(_)
UndefinedAsNull(v) ==
    CASE v.t = "undefined" -> Null
      [] v.t = "Array" ->
            List([i \in 1..Len(v.items) |-> UndefinedAsNull(v.items[i])])
      [] v.t = "object" ->
            PlainObject([i \in 1..Len(v.entries) |->
                            Entry(v.entries[i].k, UndefinedAsNull(v.entries[i].v))])
      [] OTHER -> v

\* C13: for every value of the supported domain, decoding its encoding gives
\* the value itself, with null in the place of every undefined.
C13_RoundTrip ==
    (decoded # None /\ InSupportedDomain(value)) =>
        decoded.v = UndefinedAsNull(value)

\* C13 witness: an object holding a negative integer and undefined was
\* encoded and decoded, and came back with null for undefined
C13_Witness ==
    /\ value = PlainObject(<< Entry(KeyBC, Num(-24)), Entry(KeyA, Undefined) >>)
    /\ wire # None
    /\ wire.v.mapValue.fields[1].v = [integerValue |-> <<"-", "1", "2">>]
    /\ decoded = Some(PlainObject(<< Entry(KeyBC, Num(-24)), Entry(KeyA, Null) >>))

(***************************************************************************)
(* Properties of the path functions.                                       *)
(***************************************************************************)
\* a non-empty string of letters, digits and underscores that does not
\* start with a digit
IsSimpleIdentifier(s) ==
    /\ s # <<>>
    /\ \A i \in 1..Len(s) : s[i] \in Letters \cup Digits \cup {"_"}
    /\ s[1] \notin Digits

\* s with every backslash doubled and every backtick preceded by a backslash
RECURSIVE Escaped(_)
Escaped(s) ==
    IF s = <<>> THEN <<>>
    ELSE (IF Head(s) = Backslash THEN <<Backslash, Backslash>>
          ELSE IF Head(s) = Backtick THEN <<Backslash, Backtick>>
          ELSE <<Head(s)>>) \o Escaped(Tail(s))

\* C14: quoteFieldPathSegment(s) gives s itself if and only if s is a simple
\* identifier; for any other s it gives s between two backticks with every
\* backslash doubled and every backtick preceded by one backslash.
C14_QuoteSegment ==
    (quoted # None /\ quoted.fn = "quoteFieldPathSegment") =>
        /\ (quoted.ret = path) <=> IsSimpleIdentifier(path)
        /\ ~ IsSimpleIdentifier(path) =>
              quoted.ret = <<Backtick>> \o Escaped(path) \o <<Backtick>>

\* C14 witness: a backslash followed by a backtick was quoted
C14_Witness ==
    /\ quoted # None /\ quoted.fn = "quoteFieldPathSegment"
    /\ path = <<Backslash, Backtick>>
    /\ quoted.ret = <<Backtick, Backslash, Backslash, Backslash, Backtick, Backtick>>

\* the segments of p: the pieces between its dots, found by reading p from
\* the left
RECURSIVE SegmentsFrom(_, _, _)
SegmentsFrom(p, done, current) ==
    IF p = <<>> THEN Append(done, current)
    ELSE IF Head(p) = "." THEN SegmentsFrom(Tail(p), Append(done, current), <<>>)
    ELSE SegmentsFrom(Tail(p), done, Append(current, Head(p)))
SegmentsOf(p) == SegmentsFrom(p, <<>>, <<>>)

\* the segments joined with dots
RECURSIVE Dotted(_)
Dotted(segs) ==
    IF Len(segs) = 1 THEN segs[1]
    ELSE segs[1] \o <<".">> \o Dotted(Tail(segs))

\* the number of segments of a quoted path: one more than its dots that are
\* outside backticks (inside backticks a backslash escapes the next character)
RECURSIVE QuotedSegmentCount(_, _)
QuotedSegmentCount(q, inQuote) ==
    IF q = <<>> THEN 1
    ELSE IF inQuote /\ Head(q) = Backslash /\ Len(q) >= 2
    THEN QuotedSegmentCount(Tail(Tail(q)), inQuote)
    ELSE IF Head(q) = Backtick THEN QuotedSegmentCount(Tail(q), ~ inQuote)
    ELSE IF Head(q) = "." /\ ~ inQuote THEN 1 + QuotedSegmentCount(Tail(q), inQuote)
    ELSE QuotedSegmentCount(Tail(q), inQuote)

\* C15: quoteFieldPath(p) is the segments of p, each quoted by
\* quoteFieldPathSegment on its own, joined with dots; it has as many quoted
\* segments as p has segments.
C15_QuotePath ==
    (quoted # None /\ quoted.fn = "quoteFieldPath") =>
        /\ quoted.ret =
              Dotted([i \in 1..Len(SegmentsOf(path)) |->
                         QuoteFieldPathSegment(SegmentsOf(path)[i])])
        /\ QuotedSegmentCount(quoted.ret, FALSE) = Len(SegmentsOf(path))

\* C15 witness: a path of a simple segment and of one that needs quoting
C15_Witness ==
    /\ quoted # None /\ quoted.fn = "quoteFieldPath"
    /\ path = <<"a", ".", "-">>
    /\ quoted.ret = <<"a", ".", Backtick, "-", Backtick>>

(***************************************************************************)
(* Properties of the writes of set and update.                             *)
(***************************************************************************)
\* the entries of a payload at every depth of its nested maps, depth first
\* and in insertion order, each with the keys that lead to it from the top
RECURSIVE EntriesOf(_, _)
EntriesOf(data, keys) ==
    LET Of(e) ==
            << [keys |-> Append(keys, e.k), v |-> e.v] >>
            \o (IF e.v.t = "object" THEN EntriesOf(e.v, Append(keys, e.k)) ELSE <<>>)
    IN Concat([i \in 1..Len(data.entries) |-> Of(data.entries[i])])

\* a plain leaf: a value that is no sentinel and no map with entries
IsPlainLeaf(v) == ~ IsFieldValue(v) /\ (v.t = "object" => v.entries = <<>>)

\* the segments a list of keys names: every key split at its dots
SegmentsOfKeys(keys) == Concat([i \in 1..Len(keys) |-> SegmentsOf(keys[i])])

\* the quoted path of a list of keys
QuotedPathOf(keys) ==
    Dotted([i \in 1..Len(SegmentsOfKeys(keys)) |->
               QuoteFieldPathSegment(SegmentsOfKeys(keys)[i])])

\* the value of the field that a list of names leads to in encoded fields,
\* None if there is no such field
RECURSIVE FieldAt(_, _)
FieldAt(fields, names) ==
    LET i == FieldIndex(fields, names[1])
    IN IF i = 0 THEN None
       ELSE IF Len(names) = 1 THEN Some(fields[i].v)
       ELSE IF "mapValue" \in DOMAIN fields[i].v
       THEN FieldAt(fields[i].v.mapValue.fields, Tail(names))
       ELSE None

\* whether s is a prefix of t
IsPrefix(s, t) == Len(s) <= Len(t) /\ SubSeq(t, 1, Len(s)) = s

\* two entries of the payload, neither inside the other, name the same
\* field or a field and one inside it
Overlapping(data) ==
    LET es == EntriesOf(data, <<>>)
    IN \E i, j \in 1..Len(es) :
          /\ i # j
          /\ ~ IsPrefix(es[i].keys, es[j].keys)
          /\ ~ IsPrefix(es[j].keys, es[i].keys)
          /\ IsPrefix(SegmentsOfKeys(es[i].keys), SegmentsOfKeys(es[j].keys))

\* a set or update call has returned its writes
Wrote ==
    /\ write # None
    /\ write.api \in {"Transaction.set", "set", "Transaction.update", "update"}
    /\ ~ write.threw

\* the plain fields, the mask and the transforms that the call sends
SentFields ==
    IF write.writes # <<>> /\ "update" \in DOMAIN write.writes[1]
    THEN write.writes[1].update.fields ELSE <<>>
SentMask ==
    IF write.writes # <<>> /\ "update" \in DOMAIN write.writes[1]
    THEN write.writes[1].updateMask ELSE None
SentTransforms ==
    IF write.writes = <<>> THEN <<>>
    ELSE IF "transform" \in DOMAIN write.writes[1]
    THEN write.writes[1].transform.fieldTransforms
    ELSE IF write.writes[1].updateTransforms = None THEN <<>>
    ELSE write.writes[1].updateTransforms.v

\* the names under which the entry of a list of keys is sent: update spells
\* a top-level dotted key as nested maps, the other calls keep the keys
SentNames(keys) ==
    IF write.api = "update" THEN SegmentsOf(keys[1]) \o Tail(keys) ELSE keys

\* C16: the plain fields a set or update sends hold no entry for a key whose
\* value is a sentinel, at any depth, and hold every entry whose value is not
\* a sentinel (a plain leaf with its encoded value); {a: Increment(5)} gives
\* no plain fields and exactly one transform, increment by 5.
C16_SentinelsErased ==
    Wrote =>
        /\ \A i \in 1..Len(EntriesOf(payload, <<>>)) :
              LET e == EntriesOf(payload, <<>>)[i]
                  field == FieldAt(SentFields, SentNames(e.keys))
              IN /\ IsFieldValue(e.v) => field = None
                 /\ IsPlainLeaf(e.v) => field = Some(ToFirestoreValue(e.v))
                 /\ (~ IsFieldValue(e.v) /\ ~ IsPlainLeaf(e.v) /\ SentFields # <<>>) =>
                        field # None
        /\ payload = PlainObject(<< Entry(KeyA, Increment(Num(10))) >>) =>
              /\ SentFields = <<>>
              /\ SentTransforms =
                    << [fieldPath |-> KeyA, increment |-> [integerValue |-> <<"5">>]] >>

\* the same for the payloads in which no two entries overlap
C16_ErasedWithoutOverlap == ~ Overlapping(payload) => C16_SentinelsErased

\* the entries of the payload that hold a Delete sentinel, and those that
\* hold another sentinel
DeleteEntries(data) ==
    SelectSeq(EntriesOf(data, <<>>), LAMBDA e : IsFieldValue(e.v) /\ e.v.type = "delete")
TransformEntries(data) ==
    SelectSeq(EntriesOf(data, <<>>), LAMBDA e : IsFieldValue(e.v) /\ e.v.type # "delete")
PlainLeafEntries(data) ==
    SelectSeq(EntriesOf(data, <<>>), LAMBDA e : IsPlainLeaf(e.v))

\* the quoted paths of a list of entries
PathsOf(es) == [i \in 1..Len(es) |-> QuotedPathOf(es[i].keys)]

\* the members of a list
Range(s) == { s[i] : i \in 1..Len(s) }

\* the encoded elements of a list of values
Encoded(xs) == [i \in 1..Len(xs) |-> ToFirestoreValue(xs[i])]

\* the operation of a sentinel that is no Delete, at a path
OperationOf(s, p) ==
    CASE s.type = "serverTimestamp" -> [fieldPath |-> p, setToServerValue |-> "REQUEST_TIME"]
      [] s.type = "increment" -> [fieldPath |-> p, increment |-> ToFirestoreValue(s.amount)]
      [] s.type = "arrayUnion" ->
            [fieldPath |-> p, appendMissingElements |-> [values |-> Encoded(s.elements)]]
      [] s.type = "arrayRemove" ->
            [fieldPath |-> p, removeAllFromArray |-> [values |-> Encoded(s.elements)]]

\* C17: the delete list is the quoted paths of the entries holding a Delete
\* sentinel, the transform list has one transform per entry holding another
\* sentinel, with the entry's quoted path and the sentinel's operation; both
\* are in depth-first insertion order, and no Delete gives a transform.
C17_DeleteAndTransformLists ==
    (write # None /\ write.api = "extract") =>
        /\ write.flat.deleteFields = PathsOf(DeleteEntries(payload))
        /\ write.flat.transforms =
              [i \in 1..Len(TransformEntries(payload)) |->
                  OperationOf(TransformEntries(payload)[i].v,
                              QuotedPathOf(TransformEntries(payload)[i].keys))]
        /\ \A i \in 1..Len(write.flat.transforms) :
              write.flat.transforms[i].fieldPath \notin Range(write.flat.deleteFields)

\* C17 witness: the lists of a payload with a Delete under a dotted key and
\* an ArrayUnion under a key that needs quoting
C17_Witness ==
    /\ write # None /\ write.api = "extract"
    /\ payload = PlainObject(<< Entry(KeyAB, DeleteField),
                                Entry(KeyBC, ArrayUnion(<< Num(2), Str(KeyA) >>)) >>)
    /\ write.flat.deleteFields = << <<"a", ".", "b">> >>
    /\ write.flat.transforms =
          << [fieldPath |-> <<Backtick, "b", "-", "c", Backtick>>,
              appendMissingElements |->
                  [values |-> << [integerValue |-> <<"1">>],
                                 [stringValue |-> KeyA] >>]] >>

\* C18: the mask of an update is the quoted paths of the plain leaves of the
\* payload that are no transform path, and the Delete paths; no transform
\* path is in it, and every plain leaf it names is a field of the plain
\* fields sent.
C18_UpdateMask ==
    (Wrote /\ write.api \in {"Transaction.update", "update"}) =>
        LET mask == IF SentMask = None THEN {} ELSE Range(SentMask.v)
            deletes == Range(PathsOf(DeleteEntries(payload)))
            transformed == Range(PathsOf(TransformEntries(payload)))
            leaves == PlainLeafEntries(payload)
        IN /\ mask = (Range(PathsOf(leaves)) \ transformed) \cup deletes
           /\ mask \cap transformed = {}
           /\ \A i \in 1..Len(leaves) :
                 (QuotedPathOf(leaves[i].keys) \in mask \ deletes) =>
                     FieldAt(SentFields, SegmentsOfKeys(leaves[i].keys)) # None

\* C19: the mask of a set with merge is the quoted paths of the plain leaves
\* of the payload, and holds the path of no sentinel; a set without merge
\* has no mask.
C19_MergeMask ==
    (Wrote /\ write.api \in {"Transaction.set", "set"}) =>
        IF write.merge
        THEN /\ SentMask # None
             /\ Range(SentMask.v) = Range(PathsOf(PlainLeafEntries(payload)))
             /\ Range(SentMask.v) \cap
                   (Range(PathsOf(DeleteEntries(payload)))
                    \cup Range(PathsOf(TransformEntries(payload)))) = {}
        ELSE SentMask = None

\* C20: a payload and the same payload with its dotted keys written as
\* nested maps give the same paths in each of the three computations (mask
\* paths, delete paths, transform paths), and each names a field by the
\* quoted path of its keys.
C20_FlatAndNestedAgree ==
    (write # None /\ write.api = "extract" /\ ~ Overlapping(payload)) =>
        /\ Range(write.flat.fieldPaths) = Range(write.nested.fieldPaths)
        /\ Range(write.flat.deleteFields) = Range(write.nested.deleteFields)
        /\ Range(write.flat.transformFields) = Range(write.nested.transformFields)
        /\ { t.fieldPath : t \in Range(write.flat.transforms) }
              = { t.fieldPath : t \in Range(write.nested.transforms) }
        /\ Range(write.flat.deleteFields) \subseteq Range(write.flat.fieldPaths)
        /\ Range(write.flat.transformFields) \subseteq Range(write.flat.fieldPaths)

(***************************************************************************)
(* Properties of runTransaction with a maxAttempts that allows no attempt. *)
(***************************************************************************)
\* C30: a runTransaction call with maxAttempts of 0 or less has thrown the
\* generic error "Transaction failed after max attempts", has sent no
\* request (no begin, no commit, none in flight), has never invoked the
\* callback and has made no handle; nothing of it is applied.
C30_NoAttemptAllowed ==
    \A t \in Procs :
        (pc[t] \notin {"idle", "unused"} /\ maxAttempts[t] <= 0) =>
            /\ pc[t] = "thrown"
            /\ outcome[t] = [threw |-> GenericError]
            /\ counts[t] = [begin |-> 0, callback |-> 0, commit |-> 0]
            /\ sent[t] = None
            /\ tx[t] = None /\ cbLast[t] = None
            /\ \A i \in 1..Len(applied) : applied[i].token[1] # t

\* C30 witness: runTransaction(cb, {maxAttempts: -1}) has thrown
C30_Witness ==
    /\ pc[1] = "thrown"
    /\ maxAttempts[1] = -1
    /\ outcome[1] = [threw |-> GenericError]

(***************************************************************************)
(* Properties of where() with an operator token outside the table.         *)
(***************************************************************************)
\* the filters of the structured query of q
CompiledFilters(q) ==
    LET w == ToStructuredQuery(arrays, queries[q]).where
    IN IF w = None THEN <<>>
       ELSE IF "filters" \in DOMAIN w.v THEN w.v.filters ELSE << w.v >>

\* C24: a where() call with an operator token outside the operator table
\* throws, and no Query object compiles to a structured query with a filter
\* whose operator is missing.
C24_UnknownOperatorRejected ==
    /\ (lastCall # None /\ lastCall.op = "where"
            /\ lastCall.arg[2] \notin OperatorTokens) => lastCall.ret = 0
    /\ \A q \in 1..Len(queries) :
          \A i \in 1..Len(CompiledFilters(q)) :
              CompiledFilters(q)[i].op # NoOperator

(***************************************************************************)
(* Properties of the cursor methods.                                       *)
(***************************************************************************)
\* the cursor the structured query should carry for the values vs
CursorOf(vs, before) ==
    Some([values |-> Encoded(vs), before |-> before])

\* C26: the query a cursor method returns compiles to a start cursor with
\* before = true for startAt and before = false for startAfter, or to an end
\* cursor with before = false for endAt and before = true for endBefore,
\* whose values are the encoded arguments in the order given; a start call
\* leaves the end cursor of its receiver and an end call its start cursor,
\* and every other builder leaves both, so that the last start call and the
\* last end call of a chain are the ones compiled.
C26_Cursors ==
    (lastCall # None /\ lastCall.ret # 0) =>
        LET new == Compiled(lastCall.ret)
            old == Compiled(lastCall.recv)
        IN CASE lastCall.op = "startAt" ->
                    new.startAt = CursorOf(lastCall.arg, TRUE) /\ new.endAt = old.endAt
             [] lastCall.op = "startAfter" ->
                    new.startAt = CursorOf(lastCall.arg, FALSE) /\ new.endAt = old.endAt
             [] lastCall.op = "endAt" ->
                    new.endAt = CursorOf(lastCall.arg, FALSE) /\ new.startAt = old.startAt
             [] lastCall.op = "endBefore" ->
                    new.endAt = CursorOf(lastCall.arg, TRUE) /\ new.startAt = old.startAt
             [] OTHER -> new.startAt = old.startAt /\ new.endAt = old.endAt

\* C26 witness: startAfter(4, "a") called on a query that already has a
\* start cursor: the new query compiles to the later cursor, values in order
C26_Witness ==
    /\ lastCall # None /\ lastCall.op = "startAfter"
    /\ lastCall.arg = << Num(4), Str(KeyA) >>
    /\ queries[lastCall.recv].startAt = Some([values |-> << Num(2) >>, before |-> TRUE])
    /\ Compiled(lastCall.ret).startAt.v.before = FALSE
    /\ Compiled(lastCall.ret).startAt.v.values[2] = [stringValue |-> KeyA]

(***************************************************************************)
(* Properties of count().                                                  *)
(***************************************************************************)
IsCount(g) == "aggregations" \in DOMAIN g

\* every count() call so far went without limit and offset and with the one
\* count aggregate, every get() call with the limit and offset of its query
CountsAndGetsSent ==
    \A i \in 1..Len(gets) :
        LET g == gets[i]
            c == queries[g.recv]
        IN IF IsCount(g)
           THEN /\ g.request.where = Compiled(g.recv).where
                /\ g.request.orderBy = Compiled(g.recv).orderBy
                /\ g.request.limit = None
                /\ g.request.offset = None
                /\ Len(g.aggregations) = 1
                /\ DOMAIN g.aggregations[1] = {"alias", "count"}
                /\ g.aggregations[1].count = <<>>
           ELSE /\ g.request.limit = (IF c.limit # None THEN c.limit ELSE c.limitToLast)
                /\ g.request.offset = c.offset

\* C25: count() sends the compiled filters and orderBy of the query without
\* limit and offset, with exactly one count aggregate, and changes neither
\* the query nor its arrays; a get() on the query, before or after a
\* count(), sends the query's limit and offset.
C25_CountDropsLimitAndOffset ==
    [][queries' = queries /\ arrays' = arrays /\ CountsAndGetsSent']_vars

\* C25 witness: count() and then get() on a query with a filter, limit(1) and
\* offset(1): the count went without limit and offset, the get with both
C25_Witness ==
    /\ Len(gets) = 2
    /\ IsCount(gets[1]) /\ ~IsCount(gets[2])
    /\ queries[1].limit = Some(1) /\ queries[1].offset = Some(1)
    /\ gets[1].request.where # None
    /\ gets[1].request.limit = None /\ gets[1].request.offset = None
    /\ gets[2].request.limit = Some(1) /\ gets[2].request.offset = Some(1)

(***************************************************************************)
(* Transaction.update against DocumentReference.update.                    *)
(***************************************************************************)
\* C28: for the same payload, the write Transaction.update queues is the
\* write DocumentReference.update sends: the same fields, mask, transforms
\* and precondition, a payload of transform sentinels only included.
C28_TransactionUpdateAsUpdate ==
    (write # None /\ write.api = "Transaction.update") =>
        /\ write.threw = UpdateDocumentWrites(payload).threw
        /\ write.writes = UpdateDocumentWrites(payload).writes

(***************************************************************************)
(* Field paths with an empty segment.                                      *)
(***************************************************************************)
\* the InvalidFieldPath error of the error taxonomy
InvalidFieldPath == << "InvalidFieldPath" >>

\* the path has an empty segment: it is empty, or starts or ends with a dot,
\* or has two adjacent dots
HasEmptySegment(p) == \E i \in 1..Len(SegmentsOf(p)) : SegmentsOf(p)[i] = <<>>

\* an empty quoted segment: two backticks with nothing between them, at the
\* start of the quoted path or after a dot
HasEmptyQuotedSegment(q) ==
    \E i \in 1..(Len(q) - 1) :
        /\ q[i] = Backtick /\ q[i + 1] = Backtick
        /\ (i = 1 \/ q[i - 1] = ".")
        /\ (i + 1 = Len(q) \/ q[i + 2] = ".")

\* C27: quoteFieldPath of a path with an empty segment, and
\* quoteFieldPathSegment of the empty segment (the calls the extractors
\* make for a key), give the InvalidFieldPath error, and no quoted path
\* has an empty quoted segment.
C27_EmptySegmentRejected ==
    quoted # None =>
        /\ (quoted.fn = "quoteFieldPath" /\ HasEmptySegment(path)) =>
               quoted.ret = InvalidFieldPath
        /\ (quoted.fn = "quoteFieldPathSegment" /\ path = <<>>) =>
               quoted.ret = InvalidFieldPath
        /\ ~ HasEmptyQuotedSegment(quoted.ret)

(***************************************************************************)
(* Properties of the bearer token.                                         *)
(***************************************************************************)
\* the requests the current attempt of call t has sent so far: its begin,
\* its reads, and its commit once the callback has returned
RequestsOfAttempt(t) ==
    IF pc[t] \in {"begin", "callback", "reading", "token"} THEN 1 + auth[t].reads
    ELSE IF pc[t] = "commit" \/ (pc[t] = "returned" /\ auth[t].getToken > 0)
    THEN 2 + auth[t].reads
    ELSE 0

C29_CommitWritesAtResolve ==
    \A t \in Procs :
        pc[t] = "commit" => sent[t] = CommitRequest(tx[t].id, queued[t])

(***************************************************************************)
(* Properties of a document read.                                          *)
(***************************************************************************)
\* the backend reported the document absent: 404 to the single fetch, a
\* missing result to the batch fetch
ReportedAbsent(snap) ==
    IF snap.api = "DocumentReference.get" THEN snap.reply.status = 404
    ELSE Ok(snap.reply) /\ "missing" \in DOMAIN snap.reply.results[1]

\* the backend returned the document
ReturnedDocument(snap) ==
    IF snap.api = "DocumentReference.get" THEN Ok(snap.reply)
    ELSE Ok(snap.reply) /\ "found" \in DOMAIN snap.reply.results[1]

\* C21: a read gives a non-existent snapshot without an error exactly when
\* the backend reported the document absent; every returned document gives
\* a snapshot with exists = true; any other reply makes the read throw.
C21_ReadSnapshot ==
    snapshot # None =>
        /\ (~ snapshot.threw /\ ~ snapshot.exists) <=> ReportedAbsent(snapshot)
        /\ ReturnedDocument(snapshot) => (~ snapshot.threw /\ snapshot.exists)
        /\ (~ ReportedAbsent(snapshot) /\ ~ ReturnedDocument(snapshot)) => snapshot.threw

(***************************************************************************)
(* Properties of limitToLast against the backend.                          *)
(***************************************************************************)
\* the last n elements of a sequence
LastN(seq, n) == IF n >= Len(seq) THEN seq ELSE SubSeq(seq, Len(seq) - n + 1, Len(seq))

\* what get() gives for the query with constraints c without its limitToLast
WithoutLimitToLast(c) ==
    LET base == [c EXCEPT !.limitToLast = None]
    IN QueryGetDocuments(base,
           BackendRunQuery(ToStructuredQuery(arrays, base), store).items)

\* C23: get() on a query with an orderBy and limitToLast(n), with or without
\* a filter, an offset and cursors, gives the last n documents of what the
\* same query gives without limitToLast, in the order asked for.
C23_LastDocuments ==
    \A i \in 1..Len(gets) :
        LET c == queries[gets[i].recv]
        IN (c.limitToLast # None /\ Len(arrays[c.orderBy]) >= 1) =>
              gets[i].ret = Some(LastN(WithoutLimitToLast(c), c.limitToLast.v))

====
